---- MODULE Spec2Model ----
(***************************************************************************)
(* State-machine model of the BOM / costing / production-planning core of  *)
(* the 16Food-QLSX backend (backend/app/services/bom_service.py and        *)
(* production_service.py, with the API handlers that drive them) and of    *)
(* its stock documents and stock-takings (backend/app/api/inventory.py).   *)
(*                                                                         *)
(* Quantities that the code computes with float arithmetic are modelled as *)
(* exact rationals [n, d]; quantities that are only added, subtracted and  *)
(* compared are integers.  Dates are day numbers.                          *)
(***************************************************************************)
EXTENDS Integers, Sequences, FiniteSets, TLC

VARIABLES
    batchSpec,         \* Product.batch_spec, per product (NullText or a text)
    bomMaterials,      \* rows of BomMaterial
    bomSemiProducts,   \* rows of BomSemiProduct
    bomLabor,          \* rows of BomLabor
    priceHistory,      \* rows of MaterialPriceHistory
    costPrice,         \* Product.cost_price, per product
    salesLines,        \* rows of SalesOrderLine joined with their SalesOrder
    snapshots,         \* InventorySnapshot.current_qty per (product, warehouse)
    planDays,          \* rows of ProductionPlanDay, keyed by (product, date)
    productionOrders,  \* rows of ProductionOrder with their single line
    inventory,         \* rows of InventorySnapshot, per (product, warehouse)
    stockDocuments,    \* rows of StockDocument with their lines
    stockTakings,      \* rows of StockTaking with their lines
    sessions,          \* the database sessions of requests still running
    ret                \* the last call and what it returned

vars == <<batchSpec, bomMaterials, bomSemiProducts, bomLabor, priceHistory,
          costPrice, salesLines, snapshots, planDays, productionOrders,
          inventory, stockDocuments, stockTakings, sessions, ret>>

bomVars  == <<batchSpec, bomMaterials, bomSemiProducts, bomLabor, priceHistory, costPrice>>
planVars == <<salesLines, snapshots, planDays, productionOrders>>
stockVars == <<inventory, stockDocuments, stockTakings>>

\* absent values: a NULL text, a NULL date, a NULL number
NullText == <<"NULL">>
NoDate   == 0
RNone    == [n |-> 0, d |-> 0]
\* the pair (product, warehouse) has no InventorySnapshot row
NoSnapshot == [total_in |-> 0, total_out |-> 0, current_qty |-> 0, exists |-> FALSE]

-----------------------------------------------------------------------------
(* Bounds of the model                                                     *)

MaxDay        == 2     \* dates are the days 1..MaxDay
MaxSalesLines == 2     \* sales-order lines in the database
MaxOrders     == 2     \* production orders present when a run may still start
MaxStocked    == 2     \* (product, warehouse) pairs holding stock
MaxBomRows    == 4     \* rows in the BOM tables
MaxPrices     == 2     \* rows in the price history
MaxLabor      == 1     \* rows of BomLabor

Days == 1..MaxDay

-----------------------------------------------------------------------------
(* Arithmetic helpers                                                      *)

Min(a, b) == IF a <= b THEN a ELSE b
Max(a, b) == IF a >= b THEN a ELSE b

Abs(a) == IF a < 0 THEN -a ELSE a

RECURSIVE Gcd(_, _)
Gcd(a, b) == IF b = 0 THEN a ELSE Gcd(b, a % b)

\* the rational n/d in lowest terms, d > 0
Rat(n, d) ==
    LET g == Gcd(Abs(n), Abs(d))
        s == IF d < 0 THEN -1 ELSE 1
    IN  [n |-> (s * n) \div g, d |-> (s * d) \div g]

RInt(k)    == [n |-> k, d |-> 1]
RZero      == RInt(0)
RAdd(a, b) == Rat(a.n * b.d + b.n * a.d, a.d * b.d)
RMul(a, b) == Rat(a.n * b.n, a.d * b.d)
RDiv(a, b) == Rat(a.n * b.d, a.d * b.n)
RLess(a, b) == a.n * b.d < b.n * a.d
RLeq(a, b)  == a.n * b.d <= b.n * a.d
RPos(a)    == a.n > 0
\* math.ceil
RCeil(a)   == -((-a.n) \div a.d)

RECURSIVE SeqSum(_)
SeqSum(s) == IF s = <<>> THEN 0 ELSE Head(s) + SeqSum(Tail(s))

\* the enumerations of a finite set, one sequence per order
RECURSIVE Orderings(_)
Orderings(S) ==
    IF S = {} THEN {<<>>}
    ELSE UNION {{<<x>> \o o : o \in Orderings(S \ {x})} : x \in S}

\* the functions that pick, for every x of the domain of g, an element of g[x]
RECURSIVE Choices(_)
Choices(g) ==
    IF DOMAIN g = {} THEN {<<>>}
    ELSE LET x    == CHOOSE y \in DOMAIN g : TRUE
             rest == [y \in DOMAIN g \ {x} |-> g[y]]
         IN  {f @@ (x :> c) : f \in Choices(rest), c \in g[x]}

-----------------------------------------------------------------------------
(* Catalog: products, their group, warehouses, their type                  *)

Products == {"F", "S", "S2", "M", "M2"}

\* Product.group
group == [p \in Products |->
            CASE p = "F"  -> "TP"
              [] p = "S"  -> "BTP"
              [] p = "S2" -> "BTP"
              [] OTHER    -> "NVL"]

Warehouses == {"KHO_TP", "KHO_TP2", "KHO_BTP", "KHO_NVL"}

\* Warehouse.type
warehouseType == [w \in Warehouses |->
            CASE w = "KHO_TP"  -> "TP"
              [] w = "KHO_TP2" -> "TP"
              [] w = "KHO_BTP" -> "BTP"
              [] OTHER         -> "NVL"]

-----------------------------------------------------------------------------
(* Batch specs: free text, a sequence of characters                        *)

Digits == {"0", "1", "2", "3", "4", "5", "6", "7", "8", "9"}

DigitVal(c) ==
    CASE c = "0" -> 0 [] c = "1" -> 1 [] c = "2" -> 2 [] c = "3" -> 3
      [] c = "4" -> 4 [] c = "5" -> 5 [] c = "6" -> 6 [] c = "7" -> 7
      [] c = "8" -> 8 [] c = "9" -> 9

RECURSIVE DigitsVal(_)
DigitsVal(s) ==
    IF s = <<>> THEN 0
    ELSE DigitsVal(SubSeq(s, 1, Len(s) - 1)) * 10 + DigitVal(s[Len(s)])

RECURSIVE Pow10(_)
Pow10(k) == IF k = 0 THEN 1 ELSE 10 * Pow10(k - 1)

\* length of the run of digits of s that starts at position i
RECURSIVE DigitRun(_, _)
DigitRun(s, i) ==
    IF i <= Len(s) /\ s[i] \in Digits THEN 1 + DigitRun(s, i + 1) ELSE 0

\* re.search(r'(\d+(?:\.\d+)?)', spec): the first numeric token of the text,
\* as a rational, or RNone when the text holds no digit
FirstNumber(s) ==
    IF \A i \in DOMAIN s : s[i] \notin Digits THEN RNone
    ELSE LET i  == CHOOSE k \in DOMAIN s :
                      s[k] \in Digits /\ \A j \in 1..(k - 1) : s[j] \notin Digits
             w  == DigitRun(s, i)
             e  == i + w
             f  == IF e <= Len(s) /\ s[e] = "." THEN DigitRun(s, e + 1) ELSE 0
             ip == DigitsVal(SubSeq(s, i, e - 1))
         IN  IF f = 0 THEN RInt(ip)
             ELSE Rat(ip * Pow10(f) + DigitsVal(SubSeq(s, e + 1, e + f)), Pow10(f))

\* float(spec) for the texts of the model's alphabet (digits, ".", letters):
\* digits with at most one ".", at least one digit; RNone stands for ValueError
FloatOf(s) ==
    LET dots == {i \in DOMAIN s : s[i] = "."}
    IN  IF /\ \A i \in DOMAIN s : s[i] \in Digits \cup {"."}
           /\ Cardinality(dots) <= 1
           /\ \E i \in DOMAIN s : s[i] \in Digits
        THEN IF dots = {} THEN RInt(DigitsVal(s))
             ELSE LET e == CHOOSE i \in dots : TRUE
                      f == Len(s) - e
                  IN  Rat(DigitsVal(SubSeq(s, 1, e - 1)) * Pow10(f)
                            + DigitsVal(SubSeq(s, e + 1, Len(s))), Pow10(f))
        ELSE RNone

\* `not batch_spec`: NULL or the empty string
NoSpec(spec) == spec = NullText \/ spec = <<>>

calculate_batch_count(planned_qty, spec) ==
    IF NoSpec(spec) \/ planned_qty <= 0 THEN 0
    ELSE LET fl == FloatOf(spec)
             rx == FirstNumber(spec)
         IN  IF fl # RNone /\ RPos(fl) THEN RCeil(RDiv(RInt(planned_qty), fl))
             ELSE IF rx # RNone /\ RPos(rx) THEN RCeil(RDiv(RInt(planned_qty), rx))
             ELSE 1

-----------------------------------------------------------------------------
(* Production planning: sales orders -> production orders                  *)

\* SalesOrder.status values (main.py shows these four; "delivered" behaves
\* as "completed" everywhere in this model and is left out)
OrderStatuses == {"new", "in_production", "completed"}

\* quantities a sales-order line can carry
LineQuantities == {600, 1500}

\* quantity held by a stocked (product, warehouse) pair
StockQuantities == {800}

RECURSIVE SumQuantity(_)
SumQuantity(rows) ==
    IF rows = {} THEN 0
    ELSE LET r == CHOOSE x \in rows : TRUE
         IN  r.quantity + SumQuantity(rows \ {r})

\* the row added to a table: identical rows are told apart by a copy number
NewRow(table, fields) ==
    LET k == CHOOSE i \in 1..(Cardinality(table) + 1) :
                /\ [fields EXCEPT !.copy = i] \notin table
                /\ \A j \in 1..(i - 1) : [fields EXCEPT !.copy = j] \in table
    IN  [fields EXCEPT !.copy = k]

\* a stock lookup that forgets the Warehouse.type filter
get_available_stock_any_type(product_id, warehouse_type) ==
    LET RECURSIVE SumStock(_)
        SumStock(W) == IF W = {} THEN 0
                       ELSE LET w == CHOOSE x \in W : TRUE
                            IN  snapshots[product_id, w] + SumStock(W \ {w})
    IN  SumStock(Warehouses)

get_available_stock(product_id, warehouse_type) ==
    LET ws == {w \in Warehouses : warehouseType[w] = warehouse_type}
        RECURSIVE SumStock(_)
        SumStock(W) == IF W = {} THEN 0
                       ELSE LET w == CHOOSE x \in W : TRUE
                            IN  snapshots[product_id, w] + SumStock(W \ {w})
    IN  SumStock(ws)

\* the dict {product_id: {delivery_date: total_quantity}}
aggregate_demand_from_orders(start_date, end_date) ==
    LET rows == {l \in salesLines :
                    /\ l.status \in {"new", "in_production"}
                    /\ l.delivery_date >= start_date
                    /\ l.delivery_date <= end_date}
    IN  [p \in {l.product_id : l \in rows} |->
            [d \in {l.delivery_date : l \in {x \in rows : x.product_id = p}} |->
                SumQuantity({l \in rows : l.product_id = p /\ l.delivery_date = d})]]

\* the plan rows after create_production_plan_day(product, date, qty)
create_production_plan_day(plans, product_id, production_date, planned_qty, capacity) ==
    LET k == <<product_id, production_date>>
        row == IF k \in DOMAIN plans
               THEN [plans[k] EXCEPT
                        !.planned_qty = @ + planned_qty,
                        !.remaining_qty = (plans[k].planned_qty + planned_qty) - plans[k].ordered_qty]
               ELSE [planned_qty |-> planned_qty, ordered_qty |-> 0,
                     remaining_qty |-> planned_qty, capacity_max |-> capacity]
    IN  [x \in DOMAIN plans \cup {k} |-> IF x = k THEN row ELSE plans[x]]

\* the ProductionOrder (with its line) that create_production_order_from_demand adds
create_production_order_from_demand(orders, product_id, production_date, planned_qty, order_type) ==
    LET count_today == Cardinality({i \in DOMAIN orders :
                                      orders[i].production_date = production_date})
    IN  [business_seq    |-> count_today + 1,
         production_date |-> production_date,
         order_type      |-> order_type,
         product_id      |-> product_id,
         planned_qty     |-> planned_qty,
         line_planned_qty |-> <<planned_qty>>,
         batch_count     |-> calculate_batch_count(planned_qty, batchSpec[product_id]),
         status          |-> "new"]

\* the ascending enumeration of a set of days
RECURSIVE SortedDates(_)
SortedDates(D) ==
    IF D = {} THEN <<>>
    ELSE LET m == CHOOSE x \in D : \A y \in D : x <= y
         IN  <<m>> \o SortedDates(D \ {m})

\* one pass of the loop over sorted_dates: st holds the plan rows, the
\* production orders, the orders created by this run and remaining_demand
AllocateDeliveryDate(st, product_id, delivery_date, demand_for_date, start_date, order_type) ==
    LET prod0 == IF delivery_date - 1 < start_date THEN start_date ELSE delivery_date - 1
        demand_to_fulfill == Min(demand_for_date, st.remaining)
        used_capacity == IF <<product_id, prod0>> \in DOMAIN st.plans
                         THEN st.plans[<<product_id, prod0>>].ordered_qty ELSE 0
        avail0 == 1000 - used_capacity
        prod_date == IF avail0 <= 0 THEN prod0 + 1 ELSE prod0
        available_capacity == IF avail0 <= 0 THEN 1000 ELSE avail0
        qty_to_produce == Min(demand_to_fulfill, available_capacity)
        po == create_production_order_from_demand(
                  st.orders, product_id, prod_date, qty_to_produce, order_type)
    IN  IF demand_to_fulfill <= 0 THEN st
        ELSE [plans     |-> create_production_plan_day(
                                st.plans, product_id, prod_date, qty_to_produce, 1000),
              orders    |-> Append(st.orders, po),
              created   |-> Append(st.created, po),
              remaining |-> st.remaining - qty_to_produce]

RECURSIVE AllocateDates(_, _, _, _, _, _)
AllocateDates(st, product_id, dates, delivery_by_date, start_date, order_type) ==
    IF dates = <<>> THEN st
    ELSE AllocateDates(
             AllocateDeliveryDate(st, product_id, Head(dates),
                                  delivery_by_date[Head(dates)], start_date, order_type),
             product_id, Tail(dates), delivery_by_date, start_date, order_type)

\* sum(delivery_by_date.values())
TotalDemand(delivery_by_date) ==
    SeqSum([i \in 1..Cardinality(DOMAIN delivery_by_date) |->
               delivery_by_date[SortedDates(DOMAIN delivery_by_date)[i]]])

\* net_demand of one product, as generate_production_orders_from_sales_orders
\* computes it
NetDemand(product_id, delivery_by_date, auto_deduct_stock) ==
    LET warehouse_type == IF group[product_id] = "BTP" THEN "BTP" ELSE "TP"
        total_demand   == TotalDemand(delivery_by_date)
    IN  IF auto_deduct_stock
        THEN Max(0, total_demand - get_available_stock(product_id, warehouse_type))
        ELSE total_demand

\* the body of the loop over demand.items() for one product
ProcessProduct(st, product_id, delivery_by_date, start_date, auto_deduct_stock) ==
    LET order_type == IF group[product_id] = "BTP" THEN "BTP" ELSE "SP"
        net_demand == NetDemand(product_id, delivery_by_date, auto_deduct_stock)
    IN  IF net_demand <= 0 THEN [st EXCEPT !.net = @ @@ (product_id :> net_demand)]
        ELSE LET r == AllocateDates(
                          [plans |-> st.plans, orders |-> st.orders,
                           created |-> st.created, remaining |-> net_demand],
                          product_id, SortedDates(DOMAIN delivery_by_date),
                          delivery_by_date, start_date, order_type)
             IN  [plans |-> r.plans, orders |-> r.orders, created |-> r.created,
                  net |-> st.net @@ (product_id :> net_demand)]

RECURSIVE ProcessProducts(_, _, _, _, _)
ProcessProducts(st, order, demand, start_date, auto_deduct_stock) ==
    IF order = <<>> THEN st
    ELSE ProcessProducts(
             ProcessProduct(st, Head(order), demand[Head(order)], start_date, auto_deduct_stock),
             Tail(order), demand, start_date, auto_deduct_stock)

\* POST /api/production/orders/from-sales-orders: the run and its response.
\* demand.items() follows the row order of an unordered GROUP BY, so the
\* products are processed in any order.  The plan row that the loop reads
\* for its capacity check may still be unflushed (autoflush is off), but a
\* row created by this code has ordered_qty = 0, the value an absent row
\* gives, so the read is modelled on the flushed table.
GenerateProductionOrders(start_date, end_date, auto_deduct_stock) ==
    /\ Len(productionOrders) < MaxOrders
    /\ start_date <= end_date
    /\ LET demand == aggregate_demand_from_orders(start_date, end_date)
       IN  \E order \in Orderings(DOMAIN demand) :
              LET r == ProcessProducts(
                           [plans |-> planDays, orders |-> productionOrders,
                            created |-> <<>>, net |-> <<>>],
                           order, demand, start_date, auto_deduct_stock)
              IN  /\ planDays' = r.plans
                  /\ productionOrders' = r.orders
                  /\ ret' = [op |-> "generate", start_date |-> start_date,
                             end_date |-> end_date,
                             auto_deduct_stock |-> auto_deduct_stock,
                             created_orders |-> r.created,
                             net_demand |-> r.net]
    /\ UNCHANGED <<salesLines, snapshots>>
    /\ UNCHANGED <<bomVars, stockVars, sessions>>

\* POST /api/orders with one valid line: the order is stored with status "new"
CreateSalesOrder(product_id, delivery_date, quantity) ==
    /\ Cardinality(salesLines) < MaxSalesLines
    /\ quantity > 0
    /\ salesLines' = salesLines \cup
          {NewRow(salesLines, [product_id |-> product_id, delivery_date |-> delivery_date,
                               quantity |-> quantity, status |-> "new", copy |-> 0])}
    /\ ret' = [op |-> "create_order"]
    /\ UNCHANGED <<snapshots, planDays, productionOrders>>
    /\ UNCHANGED <<bomVars, stockVars, sessions>>

\* migrate_sales_orders: an order row is imported with the status of the sheet
ImportSalesOrder(product_id, delivery_date, quantity, status) ==
    /\ Cardinality(salesLines) < MaxSalesLines
    /\ salesLines' = salesLines \cup
          {NewRow(salesLines, [product_id |-> product_id, delivery_date |-> delivery_date,
                               quantity |-> quantity, status |-> status, copy |-> 0])}
    /\ ret' = [op |-> "import_order"]
    /\ UNCHANGED <<snapshots, planDays, productionOrders>>
    /\ UNCHANGED <<bomVars, stockVars, sessions>>

\* migrate_production_plan_days: a plan row is imported unless one exists
ImportPlanDay(product_id, production_date, planned_qty, ordered_qty) ==
    /\ <<product_id, production_date>> \notin DOMAIN planDays
    /\ planDays = <<>>
    /\ planDays' = [x \in DOMAIN planDays \cup {<<product_id, production_date>>} |->
                      IF x = <<product_id, production_date>>
                      THEN [planned_qty |-> planned_qty, ordered_qty |-> ordered_qty,
                            remaining_qty |-> planned_qty - ordered_qty,
                            capacity_max |-> 1000]
                      ELSE planDays[x]]
    /\ ret' = [op |-> "import_plan"]
    /\ UNCHANGED <<salesLines, snapshots, productionOrders>>
    /\ UNCHANGED <<bomVars, stockVars, sessions>>

\* the (product, warehouse) pairs that may hold stock in this model
StockedPairs == {<<"F", "KHO_TP">>, <<"F", "KHO_TP2">>, <<"F", "KHO_BTP">>,
                 <<"S", "KHO_BTP">>}

InitCatalog ==
    /\ batchSpec = [p \in Products |-> IF group[p] = "BTP" THEN <<"2", "0">> ELSE NullText]
    /\ costPrice = [p \in Products |-> RNone]

\* no stock has been posted and no request is running
InitStockEmpty ==
    /\ inventory = [x \in Products \X Warehouses |-> NoSnapshot]
    /\ stockDocuments = <<>>
    /\ stockTakings = <<>>
    /\ sessions = <<>>

InitBomEmpty ==
    /\ bomMaterials = {}
    /\ bomSemiProducts = {}
    /\ bomLabor = {}
    /\ priceHistory = {}

\* the planning model starts from the stock on hand, with no orders
InitPlan ==
    /\ InitCatalog
    /\ InitBomEmpty
    /\ InitStockEmpty
    /\ salesLines = {}
    /\ snapshots \in {s \in [Products \X Warehouses -> {0} \cup StockQuantities] :
                        /\ Cardinality({x \in DOMAIN s : s[x] # 0}) <= MaxStocked
                        /\ \A x \in DOMAIN s : s[x] # 0 => x \in StockedPairs}
    /\ planDays = <<>>
    /\ productionOrders = <<>>
    /\ ret = [op |-> "none"]

NextPlan ==
    \/ \E p \in {"F", "S"}, d \in Days, q \in LineQuantities :
          CreateSalesOrder(p, d, q)
    \/ \E d \in Days, st \in OrderStatuses \ {"new"} :
          ImportSalesOrder("F", d, 600, st)
    \/ \E d \in Days : ImportPlanDay("F", d, 1000, 1000)
    \/ \E s \in Days, e \in Days, a \in BOOLEAN :
          GenerateProductionOrders(s, e, a)

SpecPlan == InitPlan /\ [][NextPlan]_vars

-----------------------------------------------------------------------------
(* BOM tables and their readers                                            *)

\* date.today() for the calls that default their date
Today == 2

\* ORDER BY effective_date DESC NULLS LAST: a comes strictly before b
NewerVersion(a, b) ==
    \/ a.effective_date # NoDate /\ b.effective_date = NoDate
    \/ /\ a.effective_date # NoDate
       /\ b.effective_date # NoDate
       /\ a.effective_date > b.effective_date

\* the BomMaterial rows of a product that pass the effective-date filter
\* (no filter when no date is given)
BomRowsAsOf(product_id, effective_date) ==
    {r \in bomMaterials :
        /\ r.product_id = product_id
        /\ \/ effective_date = NoDate
           \/ r.effective_date = NoDate
           \/ r.effective_date <= effective_date}

\* the dict get_bom_materials builds for one row
BomLine(r) ==
    [material_id    |-> r.material_id,
     quantity       |-> r.quantity,
     cost           |-> IF r.cost # RNone /\ r.cost # RZero THEN r.cost ELSE RNone,
     effective_date |-> r.effective_date]

\* list(materials_map.values()): the first row of each material, in row order
RECURSIVE FirstPerMaterial(_, _)
FirstPerMaterial(rows, seen) ==
    IF rows = <<>> THEN <<>>
    ELSE IF Head(rows).material_id \in seen
         THEN FirstPerMaterial(Tail(rows), seen)
         ELSE <<BomLine(Head(rows))>>
              \o FirstPerMaterial(Tail(rows), seen \cup {Head(rows).material_id})

\* a reader that sorts the versions oldest first
get_bom_materials_oldest(product_id, effective_date) ==
    {FirstPerMaterial(o, {}) :
        o \in {x \in Orderings(BomRowsAsOf(product_id, effective_date)) :
                 \A i, j \in DOMAIN x : i < j => ~NewerVersion(x[i], x[j])}}

\* the possible results of get_bom_materials: rows sorted by effective_date
\* descending, NULL last (rows of equal date in an order the database
\* chooses), then one line per material
get_bom_materials(product_id, effective_date) ==
    {FirstPerMaterial(o, {}) :
        o \in {x \in Orderings(BomRowsAsOf(product_id, effective_date)) :
                 \A i, j \in DOMAIN x : i < j => ~NewerVersion(x[j], x[i])}}

\* ORDER BY operation_sequence ASC NULLS LAST: the possible row orders
get_bom_semi_products(product_id) ==
    LET rows == {r \in bomSemiProducts : r.semi_product_id = product_id}
        before(a, b) == \/ a.operation_sequence # 0 /\ b.operation_sequence = 0
                        \/ /\ a.operation_sequence # 0
                           /\ b.operation_sequence # 0
                           /\ a.operation_sequence < b.operation_sequence
    IN  {o \in Orderings(rows) :
            \A i, j \in DOMAIN o : i < j => ~before(o[j], o[i])}

\* a lookup that takes the latest quotation whatever its date
get_material_price_latest(material_id, pricing_date) ==
    LET rows == {r \in priceHistory : r.material_id = material_id}
    IN  IF rows = {} THEN {RNone}
        ELSE {r.price : r \in {x \in rows : \A o \in rows : o.quoted_date <= x.quoted_date}}

\* the possible results of get_material_price: the price of a row with the
\* greatest quoted_date <= pricing_date, RNone when there is none
get_material_price(material_id, pricing_date) ==
    LET d    == IF pricing_date = NoDate THEN Today ELSE pricing_date
        rows == {r \in priceHistory : r.material_id = material_id /\ r.quoted_date <= d}
    IN  IF rows = {} THEN {RNone}
        ELSE {r.price : r \in {x \in rows : \A o \in rows : o.quoted_date <= x.quoted_date}}

\* what one handler call reads: for every product the result of its
\* get_bom_materials query, and for every material the looked-up price
BomViews(effective_date) ==
    Choices([p \in Products |-> get_bom_materials(p, effective_date)])

PriceViews(pricing_date) ==
    Choices([m \in Products |-> get_material_price(m, pricing_date)])

-----------------------------------------------------------------------------
(* BOM explosion                                                           *)

\* `x or 0`
OrZero(x) == IF x = RNone THEN RZero ELSE x

\* a variant that stores the last contribution instead of accumulating
AddBtpMaterialReplace(reqs, mat_id, total_mat_qty, line) ==
    [m \in DOMAIN reqs \cup {mat_id} |->
        IF m = mat_id
        THEN [required_quantity |-> total_mat_qty,
              unit_cost |-> line.cost,
              total_cost |-> RMul(total_mat_qty, OrZero(line.cost))]
        ELSE reqs[m]]

\* material_requirements after adding qty of a material that a BTP line brings
AddBtpMaterial(reqs, mat_id, total_mat_qty, line) ==
    IF mat_id \in DOMAIN reqs
    THEN [reqs EXCEPT ![mat_id] =
            [@ EXCEPT !.required_quantity = RAdd(@, total_mat_qty),
                      !.total_cost = RAdd(@, RMul(total_mat_qty, OrZero(line.cost)))]]
    ELSE reqs @@ (mat_id :> [required_quantity |-> total_mat_qty,
                             unit_cost |-> line.cost,
                             total_cost |-> RMul(total_mat_qty, OrZero(line.cost))])

RECURSIVE AddBtpMaterials(_, _, _)
AddBtpMaterials(reqs, btp_materials, batch_count) ==
    IF btp_materials = <<>> THEN reqs
    ELSE AddBtpMaterials(
             AddBtpMaterial(reqs, Head(btp_materials).material_id,
                            RMul(batch_count, Head(btp_materials).quantity),
                            Head(btp_materials)),
             Tail(btp_materials), batch_count)

\* a batch count rounded up to whole batches
BatchCountCeil(required_btp_qty, batch_size) ==
    RInt(RCeil(RDiv(required_btp_qty, batch_size)))

\* batch_count = required_btp_qty / batch_size
BatchCount(required_btp_qty, batch_size) ==
    RDiv(required_btp_qty, batch_size)

\* one pass of the loop over semi_products
ExplodeSemiItem(reqs, semi_item, planned_qty, view, prices) ==
    LET component_id     == semi_item.component_id
        required_btp_qty == RMul(planned_qty, semi_item.quantity)
        batch_spec       == batchSpec[component_id]
        batch_size       == IF NoSpec(batch_spec) THEN RNone ELSE FirstNumber(batch_spec)
    IN  IF group[component_id] = "BTP"
        THEN IF batch_size # RNone /\ RPos(batch_size)
             THEN AddBtpMaterials(reqs, view[component_id],
                                  BatchCount(required_btp_qty, batch_size))
             ELSE reqs
        ELSE IF component_id \in DOMAIN reqs
             THEN [reqs EXCEPT ![component_id] =
                      [@ EXCEPT !.required_quantity = RAdd(@, required_btp_qty)]]
             ELSE reqs @@ (component_id :>
                      [required_quantity |-> required_btp_qty,
                       unit_cost |-> prices[component_id],
                       total_cost |-> RMul(required_btp_qty, OrZero(prices[component_id]))])

\* the loop over the product's own bom_materials
RECURSIVE ExplodeDirect(_, _, _)
ExplodeDirect(reqs, bom_materials, planned_qty) ==
    IF bom_materials = <<>> THEN reqs
    ELSE LET bom_item     == Head(bom_materials)
             required_qty == RMul(planned_qty, bom_item.quantity)
             entry        == [required_quantity |-> required_qty,
                              unit_cost |-> bom_item.cost,
                              total_cost |-> RMul(required_qty, OrZero(bom_item.cost))]
         IN  ExplodeDirect(
                 [m \in DOMAIN reqs \cup {bom_item.material_id} |->
                     IF m = bom_item.material_id THEN entry ELSE reqs[m]],
                 Tail(bom_materials), planned_qty)

RECURSIVE ExplodeSemiItems(_, _, _, _, _)
ExplodeSemiItems(reqs, semi_products, planned_qty, view, prices) ==
    IF semi_products = <<>> THEN reqs
    ELSE ExplodeSemiItems(
             ExplodeSemiItem(reqs, Head(semi_products), planned_qty, view, prices),
             Tail(semi_products), planned_qty, view, prices)

\* the material_requirements map of calculate_material_requirements_for_
\* production_order for a product and planned quantity, given what the
\* queries of the call returned
Explode(product_id, planned_qty, view, semi_products, prices) ==
    ExplodeSemiItems(ExplodeDirect(<<>>, view[product_id], planned_qty),
                     semi_products, planned_qty, view, prices)

\* GET /api/bom/production-orders/{order_id}/material-requirements for an
\* existing order; the reads of the call are kept with the response
MaterialRequirements(order) ==
    /\ order \in DOMAIN productionOrders
    /\ LET po == productionOrders[order]
       IN  \E view \in BomViews(NoDate), prices \in PriceViews(NoDate),
              semi \in get_bom_semi_products(po.product_id) :
              ret' = [op |-> "material_requirements", order |-> order,
                      product_id |-> po.product_id, planned_qty |-> po.planned_qty,
                      view |-> view,
                      materials |-> Explode(po.product_id, RInt(po.planned_qty),
                                            view, semi, prices)]
    /\ UNCHANGED <<bomVars, stockVars, sessions>>
    /\ UNCHANGED planVars

\* POST /api/bom/products/{product_id}/materials
AddMaterialToBom(product_id, material_id, quantity, cost, effective_date) ==
    /\ Cardinality(bomMaterials) + Cardinality(bomSemiProducts) < MaxBomRows
    /\ bomMaterials' = bomMaterials \cup
          {NewRow(bomMaterials, [product_id |-> product_id, material_id |-> material_id,
                                 quantity |-> quantity, cost |-> cost,
                                 effective_date |-> effective_date, copy |-> 0])}
    /\ ret' = [op |-> "add_material"]
    /\ UNCHANGED <<stockVars, sessions, batchSpec, bomSemiProducts, bomLabor, priceHistory, costPrice>>
    /\ UNCHANGED planVars

\* a BomSemiProduct row is loaded (the table has no writer in the backend)
LoadBomSemiProduct(semi_product_id, component_id, quantity) ==
    /\ Cardinality(bomMaterials) + Cardinality(bomSemiProducts) < MaxBomRows
    /\ bomSemiProducts' = bomSemiProducts \cup
          {NewRow(bomSemiProducts, [semi_product_id |-> semi_product_id,
                                    component_id |-> component_id,
                                    quantity |-> quantity,
                                    operation_sequence |-> 0, copy |-> 0])}
    /\ ret' = [op |-> "load_semi"]
    /\ UNCHANGED <<stockVars, sessions, batchSpec, bomMaterials, bomLabor, priceHistory, costPrice>>
    /\ UNCHANGED planVars

\* POST /api/production/orders: a manual production order
CreateManualProductionOrder(production_date, order_type, product_id, planned_qty) ==
    /\ Len(productionOrders) < MaxOrders
    /\ order_type \in {"SP", "BTP"}
    /\ planned_qty > 0
    /\ productionOrders' = Append(productionOrders,
          create_production_order_from_demand(
              productionOrders, product_id, production_date, planned_qty, order_type))
    /\ ret' = [op |-> "create_manual_order"]
    /\ UNCHANGED <<salesLines, snapshots, planDays>>
    /\ UNCHANGED <<bomVars, stockVars, sessions>>

\* batch specs a semi-product can carry in the explosion model
BatchSpecs == {NullText, <<"2", "0">>, <<"2", "0", "k", "g">>, <<"k", "g">>, <<"0">>}

InitPlanEmpty ==
    /\ salesLines = {}
    /\ snapshots = [x \in Products \X Warehouses |-> 0]
    /\ planDays = <<>>
    /\ productionOrders = <<>>

InitExplode ==
    /\ batchSpec \in {b \in [Products -> BatchSpecs] :
                        /\ \A p \in Products \ {"S"} : b[p] = IF group[p] = "BTP"
                                                              THEN <<"2", "0">> ELSE NullText}
    /\ costPrice = [p \in Products |-> RNone]
    /\ InitBomEmpty
    /\ InitStockEmpty
    /\ InitPlanEmpty
    /\ ret = [op |-> "none"]

NextExplode ==
    \/ \E r \in {<<"F", "M", 2>>, <<"S", "M", 5>>, <<"S2", "M2", 5>>} :
          AddMaterialToBom(r[1], r[2], RInt(r[3]), RNone, NoDate)
    \/ \E r \in {<<"F", "S", Rat(3, 2)>>, <<"S", "S2", RInt(1)>>, <<"F", "M2", RInt(2)>>} :
          LoadBomSemiProduct(r[1], r[2], r[3])
    \/ \E q \in {100} : CreateManualProductionOrder(Today, "SP", "F", q)
    \/ \E o \in 1..MaxOrders : MaterialRequirements(o)

SpecExplode == InitExplode /\ [][NextExplode]_vars

-----------------------------------------------------------------------------
(* Costing and cascade recalculation                                       *)

\* Python truthiness of an optional number: neither None nor zero
Truthy(x) == x # RNone /\ x # RZero

\* a Numeric(18, 4) column: the value read back has four decimals
Round4(x) ==
    IF x = RNone THEN RNone
    ELSE LET whole == x.n \div x.d
             rest  == x.n % x.d
         IN  Rat(whole * 10000 + (2 * rest * 10000 + x.d) \div (2 * x.d), 10000)

\* the possible row orders of the BomLabor query of each product
LaborViews ==
    Choices([p \in Products |-> Orderings({r \in bomLabor : r.product_id = p})])

\* the loop over bom_materials of calculate_product_cost_from_bom
RECURSIVE MaterialDetails(_, _)
MaterialDetails(bom_materials, prices) ==
    IF bom_materials = <<>> THEN <<>>
    ELSE LET bom_item       == Head(bom_materials)
             material_price == IF Truthy(bom_item.cost) THEN bom_item.cost
                               ELSE prices[bom_item.material_id]
             unit_cost      == IF Truthy(material_price) THEN material_price ELSE RZero
         IN  <<[material_id |-> bom_item.material_id,
                quantity    |-> bom_item.quantity,
                unit_cost   |-> unit_cost,
                line_cost   |-> RMul(bom_item.quantity, unit_cost)]>>
             \o MaterialDetails(Tail(bom_materials), prices)

\* the loop over labor_rows
RECURSIVE LaborDetails(_)
LaborDetails(labor_rows) ==
    IF labor_rows = <<>> THEN <<>>
    ELSE LET labor      == Head(labor_rows)
             labor_cost ==
                 IF Truthy(labor.unit_cost) /\ Truthy(labor.duration_minutes)
                 THEN RMul(RDiv(labor.duration_minutes, RInt(60)), labor.unit_cost)
                 ELSE IF Truthy(labor.unit_cost) /\ Truthy(labor.quantity)
                 THEN RMul(labor.quantity, labor.unit_cost)
                 ELSE RZero
         IN  <<[duration_minutes |-> labor.duration_minutes,
                quantity  |-> IF Truthy(labor.quantity) THEN labor.quantity ELSE RNone,
                unit_cost |-> IF Truthy(labor.unit_cost) THEN labor.unit_cost ELSE RNone,
                line_cost |-> labor_cost]>>
             \o LaborDetails(Tail(labor_rows))

RECURSIVE SumLineCost(_)
SumLineCost(details) ==
    IF details = <<>> THEN RZero
    ELSE RAdd(Head(details).line_cost, SumLineCost(Tail(details)))

\* a costing that leaves the labor out of the total
calculate_product_cost_materials_only(product_id, pricing_date, view, prices, labor) ==
    LET material_details    == MaterialDetails(view[product_id], prices)
        labor_details       == LaborDetails(labor[product_id])
        total_material_cost == SumLineCost(material_details)
        total_labor_cost    == SumLineCost(labor_details)
    IN  [product_id          |-> product_id,
         pricing_date        |-> IF pricing_date = NoDate THEN Today ELSE pricing_date,
         total_material_cost |-> total_material_cost,
         total_labor_cost    |-> total_labor_cost,
         total_cost          |-> total_material_cost,
         material_details    |-> material_details,
         labor_details       |-> labor_details]

\* the dict calculate_product_cost_from_bom returns for an existing product,
\* given what its queries returned
calculate_product_cost_from_bom(product_id, pricing_date, view, prices, labor) ==
    LET material_details    == MaterialDetails(view[product_id], prices)
        labor_details       == LaborDetails(labor[product_id])
        total_material_cost == SumLineCost(material_details)
        total_labor_cost    == SumLineCost(labor_details)
    IN  [product_id          |-> product_id,
         pricing_date        |-> IF pricing_date = NoDate THEN Today ELSE pricing_date,
         total_material_cost |-> total_material_cost,
         total_labor_cost    |-> total_labor_cost,
         total_cost          |-> RAdd(total_material_cost, total_labor_cost),
         material_details    |-> material_details,
         labor_details       |-> labor_details]

\* a cost calculation that also stores the total on the product
CostCalculationPersisting(product_id, pricing_date) ==
    LET d == IF pricing_date = NoDate THEN Today ELSE pricing_date
    IN  /\ \E view \in BomViews(d), prices \in PriceViews(d), labor \in LaborViews :
              LET result == calculate_product_cost_from_bom(
                                product_id, pricing_date, view, prices, labor)
              IN  /\ ret' = [op |-> "cost_calculation", view |-> view, prices |-> prices,
                             result |-> result]
                  /\ costPrice' = [costPrice EXCEPT ![product_id] = Round4(result.total_cost)]
        /\ UNCHANGED <<stockVars, sessions, batchSpec, bomMaterials, bomSemiProducts, bomLabor, priceHistory>>
        /\ UNCHANGED planVars

\* GET /api/bom/products/{product_id}/cost-calculation for an existing product
CostCalculation(product_id, pricing_date) ==
    LET d == IF pricing_date = NoDate THEN Today ELSE pricing_date
    IN  /\ \E view \in BomViews(d), prices \in PriceViews(d), labor \in LaborViews :
              ret' = [op |-> "cost_calculation", view |-> view, prices |-> prices,
                      result |-> calculate_product_cost_from_bom(
                                     product_id, pricing_date, view, prices, labor)]
        /\ UNCHANGED <<bomVars, stockVars, sessions>>
        /\ UNCHANGED planVars

\* the products every ancestor of which consumes the semi-product
ParentRowsTransitive(btp_id) ==
    {r \in bomSemiProducts : btp_id \in
        LET RECURSIVE Below(_)
            Below(S) == LET next == S \cup {x.component_id :
                                        x \in {y \in bomSemiProducts : y.semi_product_id \in S}}
                        IN  IF next = S THEN S ELSE Below(next)
        IN  Below({r.component_id})}

\* the BomSemiProduct rows through which a product consumes the semi-product
ParentRows(btp_id) ==
    {r \in bomSemiProducts : r.component_id = btp_id}

\* the consumers found through BomMaterial rows that are in force today
ConsumerRowsInForce(material_id) ==
    {r \in bomMaterials : r.material_id = material_id /\ r.effective_date # NoDate
                          /\ r.effective_date <= Today}

\* the BomMaterial rows (joined with their product) that use the material
ConsumerRows(material_id) ==
    {r \in bomMaterials : r.material_id = material_id}

\* float(product.cost_price) if product.cost_price else None
OldCost(c) == IF Truthy(c) THEN c ELSE RNone

\* the inner loop over products_using_btp, in every order the query may give:
\* the outcomes [cost, cascade] reachable from (cost, cascade)
RECURSIVE CascadeOutcomes(_, _, _, _, _, _, _)
CascadeOutcomes(rows, btp_id, cost, cascade, view, prices, labor) ==
    IF rows = {} THEN {[cost |-> cost, cascade |-> cascade]}
    ELSE UNION {
           LET parent == r.semi_product_id
               parent_new_cost ==
                   calculate_product_cost_from_bom(parent, NoDate, view, prices, labor).total_cost
           IN  CascadeOutcomes(
                   rows \ {r}, btp_id,
                   [cost EXCEPT ![parent] = parent_new_cost],
                   Append(cascade, [product_id |-> parent,
                                    old_cost_price |-> OldCost(cost[parent]),
                                    new_cost_price |-> parent_new_cost,
                                    triggered_by_btp |-> btp_id]),
                   view, prices, labor)
           : r \in rows}

\* the loop over bom_materials of the recalculation, in every order the
\* query may give: the outcomes [cost, updated, cascade]
RECURSIVE RecalcOutcomes(_, _, _, _, _, _, _)
RecalcOutcomes(rows, cost, updated, cascade, view, prices, labor) ==
    IF rows = {} THEN {[cost |-> cost, updated |-> updated, cascade |-> cascade]}
    ELSE UNION {
           LET product == r.product_id
               new_cost_price ==
                   calculate_product_cost_from_bom(product, NoDate, view, prices, labor).total_cost
               cost1    == [cost EXCEPT ![product] = new_cost_price]
               updated1 == Append(updated, [product_id |-> product,
                                            old_cost_price |-> OldCost(cost[product]),
                                            new_cost_price |-> new_cost_price])
               inner    == IF group[product] = "BTP"
                           THEN CascadeOutcomes(ParentRows(product), product, cost1,
                                                cascade, view, prices, labor)
                           ELSE {[cost |-> cost1, cascade |-> cascade]}
           IN  UNION {RecalcOutcomes(rows \ {r}, o.cost, updated1, o.cascade,
                                     view, prices, labor) : o \in inner}
           : r \in rows}

\* the possible results of recalculate_product_cost_on_material_price_change
recalculate_product_cost_on_material_price_change(material_id, view, prices, labor) ==
    RecalcOutcomes(ConsumerRows(material_id), costPrice, <<>>, <<>>, view, prices, labor)

\* POST /api/bom/recalculate-costs/{material_id}: the recalculation and the
\* commit that stores the new cost_price values
RecalculateCosts(material_id) ==
    /\ \E view \in BomViews(Today), prices \in PriceViews(Today), labor \in LaborViews :
          \E o \in recalculate_product_cost_on_material_price_change(
                       material_id, view, prices, labor) :
              /\ costPrice' = [p \in Products |->
                                 IF o.cost[p] = costPrice[p] THEN costPrice[p]
                                 ELSE Round4(o.cost[p])]
              /\ ret' = [op |-> "recalculate_costs", material_id |-> material_id,
                         view |-> view, prices |-> prices, labor |-> labor,
                         cost_price_before |-> costPrice,
                         updated_products |-> o.updated,
                         cascade_updated |-> o.cascade]
    /\ UNCHANGED <<stockVars, sessions, batchSpec, bomMaterials, bomSemiProducts, bomLabor, priceHistory>>
    /\ UNCHANGED planVars

\* migrate_material_prices: a quotation is imported into the price history
ImportMaterialPrice(material_id, quoted_date, price) ==
    /\ Cardinality(priceHistory) < MaxPrices
    /\ priceHistory' = priceHistory \cup
          {NewRow(priceHistory, [material_id |-> material_id, quoted_date |-> quoted_date,
                                 price |-> price, copy |-> 0])}
    /\ ret' = [op |-> "import_price"]
    /\ UNCHANGED <<stockVars, sessions, batchSpec, bomMaterials, bomSemiProducts, bomLabor, costPrice>>
    /\ UNCHANGED planVars

\* a BomLabor row is loaded (the table has no writer in the backend)
LoadBomLabor(product_id, quantity, duration_minutes, unit_cost) ==
    /\ Cardinality(bomLabor) < MaxLabor
    /\ bomLabor' = bomLabor \cup
          {NewRow(bomLabor, [product_id |-> product_id, quantity |-> quantity,
                             duration_minutes |-> duration_minutes,
                             unit_cost |-> unit_cost, copy |-> 0])}
    /\ ret' = [op |-> "load_labor"]
    /\ UNCHANGED <<stockVars, sessions, batchSpec, bomMaterials, bomSemiProducts, priceHistory, costPrice>>
    /\ UNCHANGED planVars

InitCost ==
    /\ InitCatalog
    /\ InitBomEmpty
    /\ InitStockEmpty
    /\ InitPlanEmpty
    /\ ret = [op |-> "none"]

\* the BOM rows, prices and labor rows entered in the costing models
EnterCostData ==
    \/ \E r \in {<<"F", "M", 2, RNone>>, <<"F", "M", 2, RInt(9000)>>,
                 <<"S2", "M", 5, RNone>>} :
          AddMaterialToBom(r[1], r[2], RInt(r[3]), r[4], NoDate)
    \/ \E r \in {<<"F", "S", Rat(3, 2)>>, <<"S", "S2", RInt(1)>>, <<"F", "S2", RInt(1)>>} :
          LoadBomSemiProduct(r[1], r[2], r[3])
    \/ \E r \in {<<1, 10000>>, <<2, 12000>>, <<3, 15000>>} :
          ImportMaterialPrice("M", r[1], RInt(r[2]))
    \/ LoadBomLabor("F", RNone, RInt(50), RInt(50000))

NextCost ==
    \/ EnterCostData
    \/ \E p \in {"F", "S", "S2"} : CostCalculation(p, NoDate)

SpecCost == InitCost /\ [][NextCost]_vars

\* the BOM rows, prices and labor rows entered before a recalculation
EnterRecalcData ==
    \/ \E r \in {<<"F", "M", 2, RInt(9000)>>, <<"S2", "M", 5, RNone>>} :
          AddMaterialToBom(r[1], r[2], RInt(r[3]), r[4], NoDate)
    \/ \E r \in {<<"F", "S", Rat(3, 2)>>, <<"S", "S2", RInt(1)>>} :
          LoadBomSemiProduct(r[1], r[2], r[3])
    \/ \E r \in {<<1, 10000>>, <<2, 12000>>, <<3, 15000>>} :
          ImportMaterialPrice("M", r[1], RInt(r[2]))
    \/ LoadBomLabor("F", RNone, RInt(50), RInt(50000))

NextRecalc ==
    \/ EnterRecalcData
    \/ RecalculateCosts("M")

SpecRecalc == InitCost /\ [][NextRecalc]_vars

-----------------------------------------------------------------------------
(* Claims about production planning                                        *)

\* the production orders of a sequence that are for (product, date)
RECURSIVE SumPlanned(_, _, _)
SumPlanned(orders, product_id, dates) ==
    IF orders = <<>> THEN 0
    ELSE (IF Head(orders).product_id = product_id /\ Head(orders).production_date \in dates
          THEN Head(orders).planned_qty ELSE 0)
         + SumPlanned(Tail(orders), product_id, dates)

\* C1: after any sequence of runs, for every (product, production date) the
\* sum of planned_qty of the production orders created for that pair is at
\* most the daily capacity of 1000.
C1_CapacityRespected ==
    \A p \in Products, d \in 1..(MaxDay + 1) :
        SumPlanned(productionOrders, p, {d}) <= 1000

\* C2: for each product processed by a run, the quantities of the orders the
\* run created add up to the product's net demand minus the backlog reported
\* to the caller; the response carries the created orders only, so the
\* reported backlog is zero.
C2_AllocatedEqualsNetDemand ==
    ret.op = "generate" =>
        \A p \in DOMAIN ret.net_demand :
            SumPlanned(ret.created_orders, p, 1..(MaxDay + 1)) = ret.net_demand[p]

\* stock of a product in the warehouses whose type matches the product:
\* finished-goods warehouses, or semi-product warehouses for a BTP
MatchingStock(p) ==
    IF group[p] = "BTP" THEN snapshots[p, "KHO_BTP"]
    ELSE snapshots[p, "KHO_TP"] + snapshots[p, "KHO_TP2"]

\* C9 as stated: with stock deduction, net demand = max(0, all sales-order
\* line quantities with delivery date in range - matching stock).
C9_NetDemandAllLines ==
    (ret.op = "generate" /\ ret.auto_deduct_stock) =>
        \A p \in DOMAIN ret.net_demand :
            LET gross == SumQuantity({l \in salesLines :
                            /\ l.product_id = p
                            /\ l.delivery_date \in ret.start_date..ret.end_date})
            IN  ret.net_demand[p] = (IF gross > MatchingStock(p)
                                     THEN gross - MatchingStock(p) ELSE 0)

\* C9 (amended): with stock deduction, the net demand of a processed product
\* is max(0, the line quantities of its sales orders of status new or
\* in_production with delivery date in [start_date, end_date], minus its
\* stock in warehouses of the matching type); it is never negative and stock
\* in warehouses of other types has no effect.
C9_NetDemandOpenLines ==
    (ret.op = "generate" /\ ret.auto_deduct_stock) =>
        \A p \in DOMAIN ret.net_demand :
            LET gross == SumQuantity({l \in salesLines :
                            /\ l.product_id = p
                            /\ l.status \in {"new", "in_production"}
                            /\ l.delivery_date \in ret.start_date..ret.end_date})
            IN  /\ ret.net_demand[p] >= 0
                /\ ret.net_demand[p] = (IF gross > MatchingStock(p)
                                        THEN gross - MatchingStock(p) ELSE 0)

\* a run that netted 1500 of F against 800 in a finished-goods warehouse
\* while F also had stock in the semi-product warehouse
C9_Witness ==
    /\ ret.op = "generate"
    /\ ret.auto_deduct_stock
    /\ "F" \in DOMAIN ret.net_demand
    /\ ret.net_demand["F"] = 700
    /\ snapshots["F", "KHO_BTP"] > 0
    /\ MatchingStock("F") = 800

-----------------------------------------------------------------------------
(* Claims about the BOM explosion                                          *)

\* quantity-per-unit of a material in a list of BOM lines, zero when absent
QuantityIn(lines, material_id) ==
    IF \E i \in DOMAIN lines : lines[i].material_id = material_id
    THEN lines[CHOOSE i \in DOMAIN lines : lines[i].material_id = material_id].quantity
    ELSE RZero

\* the batch size a semi-product's batch spec yields, RNone when it has none
BatchSizeOf(p) ==
    IF NoSpec(batchSpec[p]) THEN RNone ELSE FirstNumber(batchSpec[p])

HasBatchSize(p) == BatchSizeOf(p) # RNone /\ RPos(BatchSizeOf(p))

\* what the component edges of a product bring of one material when every
\* semi-product demand is rounded up to whole batches
RECURSIVE WholeBatchQty(_, _, _, _)
WholeBatchQty(edges, material_id, planned_qty, view) ==
    IF edges = {} THEN RZero
    ELSE LET e == CHOOSE x \in edges : TRUE
             c == e.component_id
             q == IF group[c] = "BTP"
                  THEN RMul(BatchCountCeil(RMul(planned_qty, e.quantity), BatchSizeOf(c)),
                            QuantityIn(view[c], material_id))
                  ELSE IF c = material_id THEN RMul(planned_qty, e.quantity) ELSE RZero
         IN  RAdd(q, WholeBatchQty(edges \ {e}, material_id, planned_qty, view))

ComponentEdges(p) == {r \in bomSemiProducts : r.semi_product_id = p}

\* C3: for a component edge to a semi-product whose batch spec yields a batch
\* size b > 0, the batch count is the whole number ceil(plannedQty * edgeQty
\* / b) and each material of the semi-product is required in quantity
\* batchCount * its quantity per batch (on top of what the other edges bring).
C3_WholeBatches ==
    (/\ ret.op = "material_requirements"
     /\ \A e \in ComponentEdges(ret.product_id) :
           group[e.component_id] = "BTP" => HasBatchSize(e.component_id)) =>
        \A m \in DOMAIN ret.materials :
            ret.materials[m].required_quantity =
                RAdd(RMul(RInt(ret.planned_qty), QuantityIn(ret.view[ret.product_id], m)),
                     WholeBatchQty(ComponentEdges(ret.product_id), m,
                                   RInt(ret.planned_qty), ret.view))

\* the products reachable from a set of products through component edges
RECURSIVE ReachableProducts(_)
ReachableProducts(S) ==
    LET next == S \cup {r.component_id : r \in {x \in bomSemiProducts : x.semi_product_id \in S}}
    IN  IF next = S THEN S ELSE ReachableProducts(next)

\* a product is its own ancestor through component edges
Cyclic ==
    \E r \in bomSemiProducts : r.semi_product_id \in ReachableProducts({r.component_id})

\* the raw materials reachable from a product through component and
\* material edges
ReachableMaterials(p) ==
    LET nodes == ReachableProducts({p})
    IN  {r.material_id : r \in {x \in bomMaterials : x.product_id \in nodes}}
        \cup {c \in nodes \ {p} : group[c] = "NVL"}

\* C4: for an acyclic BOM of any depth the requirement list contains every
\* raw material reachable from the ordered product (taken on BOMs whose
\* semi-products all have a batch size, so that no batch is empty).
C4_AllLevelsExploded ==
    (/\ ret.op = "material_requirements"
     /\ ~Cyclic
     /\ \A c \in ReachableProducts({ret.product_id}) :
           group[c] = "BTP" => HasBatchSize(c)) =>
        ReachableMaterials(ret.product_id) \subseteq DOMAIN ret.materials

-----------------------------------------------------------------------------
(* Claims about costing and cascade recalculation                          *)

\* the unit cost of a requirement line: the cost cached on its BOM edge,
\* otherwise the looked-up price, otherwise zero
RequirementUnitCost(req, material_id, prices) ==
    IF Truthy(req.unit_cost) THEN req.unit_cost
    ELSE IF Truthy(prices[material_id]) THEN prices[material_id] ELSE RZero

RECURSIVE RequirementsCost(_, _, _)
RequirementsCost(reqs, mats, prices) ==
    IF mats = {} THEN RZero
    ELSE LET m == CHOOSE x \in mats : TRUE
         IN  RAdd(RMul(reqs[m].required_quantity, RequirementUnitCost(reqs[m], m, prices)),
                  RequirementsCost(reqs, mats \ {m}, prices))

\* C5: the material cost of a product is computed over the exploded
\* requirement of one unit, so that materials consumed only through its
\* semi-product components contribute to total_material_cost.
C5_CostOverExplosion ==
    ret.op = "cost_calculation" =>
        \E semi \in get_bom_semi_products(ret.result.product_id) :
            LET reqs == Explode(ret.result.product_id, RInt(1), ret.view, semi, ret.prices)
            IN  ret.result.total_material_cost =
                    RequirementsCost(reqs, DOMAIN reqs, ret.prices)

\* BOM lines with the cached cost of one material dropped
RECURSIVE WithoutCachedCost(_, _)
WithoutCachedCost(lines, material_id) ==
    IF lines = <<>> THEN <<>>
    ELSE <<IF Head(lines).material_id = material_id
           THEN [Head(lines) EXCEPT !.cost = RNone] ELSE Head(lines)>>
         \o WithoutCachedCost(Tail(lines), material_id)

\* the cost of a product when the material is valued at its latest price
CostAtLatestPrice(product_id, material_id) ==
    RAdd(SumLineCost(MaterialDetails(
                        WithoutCachedCost(ret.view[product_id], material_id), ret.prices)),
         SumLineCost(LaborDetails(ret.labor[product_id])))

\* C6: once the material has a latest price as of today and the
\* recalculation for it has completed, the stored cost_price of every
\* product with a material edge to it reflects that price, in every BOM
\* state, edges with a cached cost included.
C6_CostReflectsNewPrice ==
    (ret.op = "recalculate_costs" /\ ret.prices[ret.material_id] # RNone) =>
        \A r \in bomMaterials :
            r.material_id = ret.material_id =>
                costPrice[r.product_id] =
                    Round4(CostAtLatestPrice(r.product_id, ret.material_id))

UpdatedProducts == {ret.updated_products[i].product_id : i \in DOMAIN ret.updated_products}

CascadeProducts == {ret.cascade_updated[i].product_id : i \in DOMAIN ret.cascade_updated}

RecalculatedCost(product_id) ==
    calculate_product_cost_from_bom(product_id, NoDate, ret.view, ret.prices,
                                    ret.labor).total_cost

\* what a recalculation leaves behind: the cascade set is the set of direct
\* consumers of the updated semi-products, and their new cost is stored
CascadeIsOneLevel ==
    /\ CascadeProducts =
          {r.semi_product_id : r \in {x \in bomSemiProducts :
              x.component_id \in {u \in UpdatedProducts : group[u] = "BTP"}}}
    /\ \A p \in CascadeProducts : costPrice[p] = Round4(RecalculatedCost(p))

-----------------------------------------------------------------------------
(* BOM versions                                                            *)

\* the dict get_product_bom builds for one BomLabor row
LaborLine(l) ==
    [quantity         |-> IF Truthy(l.quantity) THEN l.quantity ELSE RNone,
     duration_minutes |-> l.duration_minutes,
     unit_cost        |-> IF Truthy(l.unit_cost) THEN l.unit_cost ELSE RNone]

\* GET /api/bom/products/{product_id}?effective_date=...
GetProductBom(product_id, effective_date) ==
    /\ \E materials \in get_bom_materials(product_id, effective_date),
          semi_products \in get_bom_semi_products(product_id),
          labor \in LaborViews :
          ret' = [op |-> "get_bom", product_id |-> product_id,
                  effective_date |-> effective_date,
                  materials |-> materials,
                  semi_products |-> semi_products,
                  labor |-> [i \in DOMAIN labor[product_id] |->
                                LaborLine(labor[product_id][i])]]
    /\ UNCHANGED <<bomVars, stockVars, sessions>>
    /\ UNCHANGED planVars

InitVersions ==
    /\ InitCatalog
    /\ InitBomEmpty
    /\ InitStockEmpty
    /\ InitPlanEmpty
    /\ ret = [op |-> "none"]

\* versions of the edges of F are added over time and the BOM is read as of
\* a date, or with no date
NextVersions ==
    \/ \E m \in {"M", "M2"}, q \in {2, 5}, d \in {NoDate} \cup Days :
          AddMaterialToBom("F", m, RInt(q), RNone, d)
    \/ \E d \in {NoDate} \cup Days : GetProductBom("F", d)

SpecVersions == InitVersions /\ [][NextVersions]_vars

\* the versions of an edge that are in force on a date
VersionsInForce(product_id, material_id, asOfDate) ==
    {r \in bomMaterials : /\ r.product_id = product_id
                          /\ r.material_id = material_id
                          /\ r.effective_date # NoDate
                          /\ r.effective_date <= asOfDate}

\* C10: as of a date the BOM has at most one line per material, and where
\* dated versions of the edge are in force the line carries the quantity of
\* a version with the greatest effective_date <= the date, never a sum.
C10_LatestVersionOnly ==
    (ret.op = "get_bom" /\ ret.effective_date # NoDate) =>
        /\ \A i, j \in DOMAIN ret.materials :
              ret.materials[i].material_id = ret.materials[j].material_id => i = j
        /\ \A i \in DOMAIN ret.materials :
              LET line     == ret.materials[i]
                  versions == VersionsInForce(ret.product_id, line.material_id,
                                              ret.effective_date)
              IN  versions # {} =>
                      \E v \in versions :
                          /\ \A o \in versions : o.effective_date <= v.effective_date
                          /\ line.quantity = v.quantity
                          /\ line.effective_date = v.effective_date

\* the BOM of F read as of day 2 while the edge to M has a version of day 1
\* with quantity 2 and a version of day 2 with quantity 5, and an undated
\* version besides: the line shows 5
C10_Witness ==
    /\ ret.op = "get_bom"
    /\ ret.effective_date = 2
    /\ \E a, b \in VersionsInForce("F", "M", 2) :
          /\ a.effective_date = 1 /\ a.quantity = RInt(2)
          /\ b.effective_date = 2 /\ b.quantity = RInt(5)
    /\ \E r \in bomMaterials : r.material_id = "M" /\ r.effective_date = NoDate
    /\ \E i \in DOMAIN ret.materials :
          /\ ret.materials[i].material_id = "M"
          /\ ret.materials[i].quantity = RInt(5)

-----------------------------------------------------------------------------
(* Explosion of dated BOM versions                                         *)

\* dated and undated versions of the edges F -> M and S -> M, the component
\* edge F -> S, orders of F produced today and their explosion
NextAsOf ==
    \/ \E r \in {<<"F", "M", 2>>, <<"F", "M", 3>>, <<"S", "M", 5>>},
          d \in {NoDate, 1, Today + 1} :
          AddMaterialToBom(r[1], r[2], RInt(r[3]), RNone, d)
    \/ LoadBomSemiProduct("F", "S", Rat(3, 2))
    \/ CreateManualProductionOrder(Today, "SP", "F", 100)
    \/ \E o \in 1..MaxOrders : MaterialRequirements(o)

SpecAsOf == InitVersions /\ [][NextAsOf]_vars

\* two requirement maps hold the same materials in the same quantities
SameQuantities(a, b) ==
    /\ DOMAIN a = DOMAIN b
    /\ \A m \in DOMAIN a : a[m].required_quantity = b[m].required_quantity

\* C11: the explosion of a production order uses no BOM material edge dated
\* after the as-of date (today, the production date of the order): the
\* required quantities are those of the explosion of the versions in force
\* on that date, for the ordered product and its semi-product components.
C11_NoFutureVersion ==
    ret.op = "material_requirements" =>
        \E view \in BomViews(Today), prices \in PriceViews(NoDate),
           semi \in get_bom_semi_products(ret.product_id) :
            SameQuantities(ret.materials,
                           Explode(ret.product_id, RInt(ret.planned_qty),
                                   view, semi, prices))

-----------------------------------------------------------------------------
(* Accumulation over the paths of the explosion                            *)

\* what one component edge brings of a material: for a semi-product with a
\* batch size, batch count times quantity per batch; for a component that is
\* not a semi-product, the component itself
EdgeQty(e, material_id, planned_qty, view) ==
    LET c == e.component_id
    IN  IF group[c] = "BTP"
        THEN IF HasBatchSize(c)
             THEN RMul(BatchCount(RMul(planned_qty, e.quantity), BatchSizeOf(c)),
                       QuantityIn(view[c], material_id))
             ELSE RZero
        ELSE IF c = material_id THEN RMul(planned_qty, e.quantity) ELSE RZero

RECURSIVE EdgesQty(_, _, _, _)
EdgesQty(edges, material_id, planned_qty, view) ==
    IF edges = {} THEN RZero
    ELSE LET e == CHOOSE x \in edges : TRUE
         IN  RAdd(EdgeQty(e, material_id, planned_qty, view),
                  EdgesQty(edges \ {e}, material_id, planned_qty, view))

\* a material is reached by a direct edge or through a component edge
OnSomePath(product_id, material_id, view) ==
    \/ \E i \in DOMAIN view[product_id] : view[product_id][i].material_id = material_id
    \/ \E e \in ComponentEdges(product_id) :
          IF group[e.component_id] = "BTP"
          THEN /\ HasBatchSize(e.component_id)
               /\ \E i \in DOMAIN view[e.component_id] :
                     view[e.component_id][i].material_id = material_id
          ELSE e.component_id = material_id

\* C12: the requirements hold one line per material reached, and its
\* required_quantity is the sum over every path: plannedQty * quantity per
\* unit of the direct edge, plus what each semi-product component and each
\* non-BTP component edge brings.
C12_PathsAccumulate ==
    ret.op = "material_requirements" =>
        /\ DOMAIN ret.materials =
              {m \in Products : OnSomePath(ret.product_id, m, ret.view)}
        /\ \A m \in DOMAIN ret.materials :
              ret.materials[m].required_quantity =
                  RAdd(RMul(RInt(ret.planned_qty), QuantityIn(ret.view[ret.product_id], m)),
                       EdgesQty(ComponentEdges(ret.product_id), m,
                                RInt(ret.planned_qty), ret.view))

\* 100 F with F -(2)-> M directly and F -(1.5)-> S -(5)-> M in batches of
\* 20: 200 + 37.5 of M on one line, and 200 of M2 through a component edge
C12_Witness ==
    /\ ret.op = "material_requirements"
    /\ "M" \in DOMAIN ret.materials
    /\ ret.materials["M"].required_quantity = Rat(475, 2)
    /\ "M2" \in DOMAIN ret.materials
    /\ ret.materials["M2"].required_quantity = RInt(200)

\* what the component edges bring of a material when a semi-product whose
\* batch spec yields no number counts as exactly one batch
RECURSIVE OneBatchQty(_, _, _, _)
OneBatchQty(edges, material_id, planned_qty, view) ==
    IF edges = {} THEN RZero
    ELSE LET e == CHOOSE x \in edges : TRUE
             c == e.component_id
             q == IF group[c] = "BTP" /\ BatchSizeOf(c) = RNone
                  THEN RMul(RInt(1), QuantityIn(view[c], material_id))
                  ELSE EdgeQty(e, material_id, planned_qty, view)
         IN  RAdd(q, OneBatchQty(edges \ {e}, material_id, planned_qty, view))

\* C13: a semi-product component with no batch spec, or a batch spec with no
\* numeric token, counts as exactly one batch: each of its materials is in
\* the result with 1 * its quantity per batch (on top of what the other
\* edges bring), never left out.
C13_NoSpecOneBatch ==
    ret.op = "material_requirements" =>
        \A m \in Products :
            LET expected == RAdd(RMul(RInt(ret.planned_qty),
                                      QuantityIn(ret.view[ret.product_id], m)),
                                 OneBatchQty(ComponentEdges(ret.product_id), m,
                                             RInt(ret.planned_qty), ret.view))
            IN  RPos(expected) =>
                    /\ m \in DOMAIN ret.materials
                    /\ ret.materials[m].required_quantity = expected

-----------------------------------------------------------------------------
(* Pricing lookup                                                          *)

\* quotations of M and M2 on several days, the edge F -> M with no cached
\* cost, a cached cost of zero or a cached cost of 9,000, and the cost of F
\* priced on a date or today
NextPrices ==
    \/ \E r \in {<<"M", 1, 10000>>, <<"M", 2, 12000>>, <<"M", 3, 15000>>,
                 <<"M2", 1, 700>>, <<"M2", 3, 800>>} :
          ImportMaterialPrice(r[1], r[2], RInt(r[3]))
    \/ \E cost \in {RNone, RZero, RInt(9000)} :
          AddMaterialToBom("F", "M", RInt(2), cost, NoDate)
    \/ \E d \in {NoDate} \cup Days : CostCalculation("F", d)

SpecPrices == InitVersions /\ [][NextPrices]_vars

\* the quotations of a material dated on or before a date
QuotedBy(material_id, asOfDate) ==
    {r \in priceHistory : r.material_id = material_id /\ r.quoted_date <= asOfDate}

\* C14: the price looked up for a material as of a date is the price of an
\* entry of that material with the greatest quoted_date <= the date, and is
\* absent exactly when there is no such entry; later entries and entries of
\* other materials have no influence.
C14_LatestPriceAsOf ==
    ret.op = "cost_calculation" =>
        \A m \in Products :
            LET rows == QuotedBy(m, ret.result.pricing_date)
            IN  /\ ret.prices[m] = RNone <=> rows = {}
                /\ rows # {} =>
                      \E r \in rows :
                          /\ \A o \in rows : o.quoted_date <= r.quoted_date
                          /\ ret.prices[m] = r.price

\* F priced as of day 2 while M was quoted 10,000 on day 1 and 15,000 on
\* day 3: the line of M is priced 10,000
C14_Witness ==
    /\ ret.op = "cost_calculation"
    /\ ret.result.pricing_date = 2
    /\ \E a, b \in priceHistory :
          /\ a.material_id = "M" /\ a.quoted_date = 1 /\ a.price = RInt(10000)
          /\ b.material_id = "M" /\ b.quoted_date = 3
    /\ ret.prices["M"] = RInt(10000)
    /\ Len(ret.result.material_details) = 1
    /\ ret.result.material_details[1].unit_cost = RInt(10000)

\* the BomMaterial rows a line of get_bom_materials can come from
RowsOfLine(product_id, line) ==
    {r \in bomMaterials : r.product_id = product_id /\ BomLine(r) = line}

\* C15: the unit cost of a material line is the cost cached on the BOM edge
\* whenever the edge carries one, a cached cost of zero included, otherwise
\* the price looked up as of the pricing date, otherwise 0; and line_cost =
\* quantity * unit_cost.
C15_UnitCostOrder ==
    ret.op = "cost_calculation" =>
        \A i \in DOMAIN ret.result.material_details :
            LET line   == ret.view[ret.result.product_id][i]
                detail == ret.result.material_details[i]
            IN  /\ \E r \in RowsOfLine(ret.result.product_id, line) :
                      detail.unit_cost =
                          IF r.cost # RNone THEN r.cost
                          ELSE IF ret.prices[line.material_id] # RNone
                               THEN ret.prices[line.material_id]
                               ELSE RZero
                /\ detail.line_cost = RMul(detail.quantity, detail.unit_cost)

-----------------------------------------------------------------------------
(* Claims about the cost breakdown                                         *)

\* the sum of line_cost over the first n lines of a breakdown
RECURSIVE LineCostUpTo(_, _)
LineCostUpTo(details, n) ==
    IF n = 0 THEN RZero
    ELSE RAdd(LineCostUpTo(details, n - 1), details[n].line_cost)

\* C16: in every cost result total_cost = total_material_cost +
\* total_labor_cost, the material cost being the sum of the line costs of
\* material_details and the labor cost that of labor_details.
C16_CostAdditive ==
    ret.op = "cost_calculation" =>
        LET result == ret.result
        IN  /\ result.total_cost = RAdd(result.total_material_cost, result.total_labor_cost)
            /\ result.total_material_cost =
                  LineCostUpTo(result.material_details, Len(result.material_details))
            /\ result.total_labor_cost =
                  LineCostUpTo(result.labor_details, Len(result.labor_details))

\* a cost of F made of a priced material line and a labor line
C16_Witness ==
    /\ ret.op = "cost_calculation"
    /\ ret.result.product_id = "F"
    /\ Len(ret.result.material_details) = 1
    /\ Len(ret.result.labor_details) = 1
    /\ RPos(ret.result.total_material_cost)
    /\ RPos(ret.result.total_labor_cost)

\* a cost calculation directly followed by one for the same product and date
RepeatedCostCalculation ==
    /\ ret.op = "cost_calculation"
    /\ ret'.op = "cost_calculation"
    /\ ret'.result.product_id = ret.result.product_id
    /\ ret'.result.pricing_date = ret.result.pricing_date

DeterminedReads(product_id) ==
    /\ \A a, b \in bomMaterials :
          (a.product_id = product_id /\ b.product_id = product_id
           /\ a.effective_date = b.effective_date) => a = b
    /\ Cardinality({l \in bomLabor : l.product_id = product_id}) <= 1
    /\ \A a, b \in priceHistory :
          (a.material_id = b.material_id /\ a.quoted_date = b.quoted_date)
              => a.price = b.price

-----------------------------------------------------------------------------
(* Material requirement plan over the production orders of a date range    *)

\* the possible results of the explosion of one production order
ExplosionsOf(order) ==
    LET po == productionOrders[order]
    IN  {Explode(po.product_id, RInt(po.planned_qty), view, semi, prices) :
            view \in BomViews(NoDate), prices \in PriceViews(NoDate),
            semi \in get_bom_semi_products(po.product_id)}

\* a merge that keeps the requirement of the last order only
MergeOrderReplacing(totals, materials) ==
    [m \in DOMAIN totals \cup DOMAIN materials |->
        IF m \in DOMAIN materials THEN materials[m].required_quantity ELSE totals[m]]

\* the requirements of one order merged into material_requirements
MergeOrder(totals, materials) ==
    [m \in DOMAIN totals \cup DOMAIN materials |->
        IF m \in DOMAIN totals
        THEN IF m \in DOMAIN materials
             THEN RAdd(totals[m], materials[m].required_quantity)
             ELSE totals[m]
        ELSE materials[m].required_quantity]

\* the loop over production_orders: an order whose explosion raised is
\* skipped, the others are merged
RECURSIVE MergeOrders(_, _, _)
MergeOrders(totals, orders, exploded) ==
    IF orders = {} THEN totals
    ELSE LET o == CHOOSE x \in orders : TRUE
         IN  MergeOrders(IF o \in DOMAIN exploded
                         THEN MergeOrder(totals, exploded[o]) ELSE totals,
                         orders \ {o}, exploded)

\* SUM(current_qty) of a material over the warehouses of type NVL
AvailableNvlStock(material_id) ==
    LET RECURSIVE SumStock(_)
        SumStock(W) == IF W = {} THEN 0
                       ELSE LET w == CHOOSE x \in W : TRUE
                            IN  snapshots[material_id, w] + SumStock(W \ {w})
    IN  SumStock({w \in Warehouses : warehouseType[w] = "NVL"})

RSub(a, b) == RAdd(a, Rat(-b.n, b.d))

\* one line of the plan
PlanLine(material_id, total_required_qty, deduct_stock) ==
    LET available_stock == IF deduct_stock THEN RInt(AvailableNvlStock(material_id))
                           ELSE RZero
        shortage        == RSub(total_required_qty, available_stock)
    IN  [total_required_qty |-> total_required_qty,
         available_stock    |-> available_stock,
         net_required_qty   |-> IF RPos(shortage) THEN shortage ELSE RZero]

\* GET /api/production/planning/material-requirement; `failed` are the
\* orders whose explosion raised during the run
MaterialRequirementPlan(start_date, end_date, deduct_stock) ==
    LET s        == IF start_date = NoDate THEN Today ELSE start_date
        e        == IF end_date = NoDate THEN s + 30 ELSE end_date
        in_range == {o \in DOMAIN productionOrders :
                        /\ productionOrders[o].production_date >= s
                        /\ productionOrders[o].production_date <= e}
    IN  /\ \E failed \in SUBSET in_range :
           \E exploded \in Choices([o \in in_range \ failed |-> ExplosionsOf(o)]) :
              LET totals == MergeOrders(<<>>, in_range, exploded)
              IN  ret' = [op |-> "material_requirement_plan",
                          start_date |-> s, end_date |-> e,
                          deduct_stock |-> deduct_stock,
                          failed |-> failed, exploded |-> exploded,
                          material_requirements |->
                              [m \in DOMAIN totals |->
                                  PlanLine(m, totals[m], deduct_stock)]]
        /\ UNCHANGED <<bomVars, stockVars, sessions>>
        /\ UNCHANGED planVars

\* stock of M in the material warehouse that the plan model starts from
PlanStockQuantities == {150}

InitRequirementPlan ==
    /\ InitCatalog
    /\ InitBomEmpty
    /\ InitStockEmpty
    /\ salesLines = {}
    /\ planDays = <<>>
    /\ productionOrders = <<>>
    /\ \E q \in PlanStockQuantities :
          snapshots = [x \in Products \X Warehouses |->
                          IF x = <<"M", "KHO_NVL">> THEN q ELSE 0]
    /\ ret = [op |-> "none"]

NextRequirementPlan ==
    \/ \E r \in {<<"F", "M", 2>>, <<"S", "M", 5>>} :
          AddMaterialToBom(r[1], r[2], RInt(r[3]), RNone, NoDate)
    \/ \E r \in {<<1, "SP", "F", 100>>, <<Today, "SP", "F", 100>>,
                 <<Today, "BTP", "S", 40>>} :
          CreateManualProductionOrder(r[1], r[2], r[3], r[4])
    \/ \E r \in {<<d, NoDate>> : d \in Days} \cup {<<1, 1>>}, deduct \in BOOLEAN :
          MaterialRequirementPlan(r[1], r[2], deduct)

SpecRequirementPlan == InitRequirementPlan /\ [][NextRequirementPlan]_vars

\* the production orders dated within the range of the last plan
OrdersInRange ==
    {o \in DOMAIN productionOrders :
        /\ productionOrders[o].production_date >= ret.start_date
        /\ productionOrders[o].production_date <= ret.end_date}

\* the sum of what the explosions of a set of orders require of a material
RECURSIVE RequiredOver(_, _)
RequiredOver(orders, material_id) ==
    IF orders = {} THEN RZero
    ELSE LET o == CHOOSE x \in orders : TRUE
             q == IF material_id \in DOMAIN ret.exploded[o]
                  THEN ret.exploded[o][material_id].required_quantity ELSE RZero
         IN  RAdd(q, RequiredOver(orders \ {o}, material_id))

\* C18: a run of the material requirement plan completes even when the
\* explosion of an order in range fails, and total_required_qty of each
\* material is the sum of its required quantity over the orders in range
\* whose explosion succeeded, each exploded independently.
C18_PlanSumsSucceededOrders ==
    ret.op = "material_requirement_plan" =>
        LET succeeded == OrdersInRange \ ret.failed
        IN  /\ DOMAIN ret.exploded = succeeded
            /\ \A o \in succeeded : ret.exploded[o] \in ExplosionsOf(o)
            /\ DOMAIN ret.material_requirements =
                  UNION {DOMAIN ret.exploded[o] : o \in succeeded}
            /\ \A m \in DOMAIN ret.material_requirements :
                  ret.material_requirements[m].total_required_qty =
                      RequiredOver(succeeded, m)

\* a run over two orders in range, one of F whose explosion failed and one
\* of S that brings 200 of M
C18_Witness ==
    /\ ret.op = "material_requirement_plan"
    /\ Cardinality(OrdersInRange) = 2
    /\ \E o \in ret.failed : productionOrders[o].product_id = "F"
    /\ \E o \in DOMAIN ret.exploded : productionOrders[o].product_id = "S"
    /\ "M" \in DOMAIN ret.material_requirements
    /\ ret.material_requirements["M"].total_required_qty = RInt(200)

\* a run of the plan directly followed by a run with the same arguments
\* that returns the same response
SamePlanResponse ==
    /\ ret.op = "material_requirement_plan"
    /\ ret'.op = "material_requirement_plan"
    /\ ret'.start_date = ret.start_date
    /\ ret'.end_date = ret.end_date
    /\ ret'.deduct_stock = ret.deduct_stock
    /\ ret'.material_requirements = ret.material_requirements

\* C19: the orders that failed during a run are returned to the caller with
\* the partial results, so that what the caller receives tells a skipped
\* order from one that had no requirements: two runs that return the same
\* response skipped the same orders.
C19_SkippedAreReported ==
    [][SamePlanResponse => ret'.failed = ret.failed]_vars

-----------------------------------------------------------------------------
(* Calls with an id that matches nothing                                   *)

\* a well-formed id that matches no product
UnknownId == "X"

\* GET cost-calculation for an id that matches no product: the service
\* raises ValueError and the handler answers 404
CostCalculationNotFound(product_id) ==
    /\ product_id \notin Products
    /\ ret' = [op |-> "cost_calculation", status |-> 404, product_id |-> product_id]
    /\ UNCHANGED <<bomVars, stockVars, sessions>>
    /\ UNCHANGED planVars

\* GET material-requirements for an id that matches no production order
MaterialRequirementsNotFound(order) ==
    /\ order \notin DOMAIN productionOrders
    /\ ret' = [op |-> "material_requirements", status |-> 404, order |-> order]
    /\ UNCHANGED <<bomVars, stockVars, sessions>>
    /\ UNCHANGED planVars

\* the status code of the last response (json_response answers 200 unless
\* told otherwise)
StatusOf(r) == IF "status" \in DOMAIN r THEN r.status ELSE 200

NextNotFound ==
    \/ \E cost \in {RNone, RInt(9000)} : AddMaterialToBom("F", "M", RInt(2), cost, NoDate)
    \/ \E r \in {<<1, 10000>>, <<2, 12000>>} : ImportMaterialPrice("M", r[1], RInt(r[2]))
    \/ \E d \in Days : CreateManualProductionOrder(d, "SP", "F", 100)
    \/ \E m \in {"M", UnknownId} : RecalculateCosts(m)
    \/ CostCalculationNotFound(UnknownId)
    \/ \E o \in 1..MaxOrders : MaterialRequirementsNotFound(o)

SpecNotFound == InitCost /\ [][NextNotFound]_vars

\* the last call was made with an id that matches nothing
UnknownIdCall(r) ==
    \/ /\ r.op = "cost_calculation"
       /\ "product_id" \in DOMAIN r
       /\ r.product_id \notin Products
    \/ /\ r.op = "material_requirements"
       /\ r.order \notin DOMAIN productionOrders
    \/ /\ r.op = "recalculate_costs"
       /\ r.material_id \notin Products

\* C20: a call of cost-calculation, material-requirements or
\* recalculate-costs with an id that matches no product, material or
\* production order answers 404 and changes no stored state.
C20_UnknownIdNotFound ==
    [][UnknownIdCall(ret') =>
          /\ StatusOf(ret') = 404
          /\ UNCHANGED <<bomVars, planVars>>]_vars

-----------------------------------------------------------------------------
(* Recalculations running at the same time                                 *)
(*                                                                         *)
(* Every request opens its own session (get_session).  With autoflush off  *)
(* the recalculation only reads while it runs: the new cost_price values   *)
(* stay in the session until db.commit() sends them.  Nothing locks the    *)
(* rows that were read and Product carries no version column.              *)

MaxSessions == 2     \* recalculation requests over the life of the model

\* the products whose cost_price a session has set to a value other than
\* the one it loaded: the rows its commit will UPDATE
WrittenProducts(cost) == {p \in Products : cost[p] # costPrice[p]}

\* POST /api/bom/recalculate-costs/{material_id}, up to the commit: the run of
\* recalculate_product_cost_on_material_price_change inside its session
RecalculateCostsRun(material_id) ==
    /\ Len(sessions) < MaxSessions
    /\ \E view \in BomViews(Today), prices \in PriceViews(Today), labor \in LaborViews :
          \E o \in recalculate_product_cost_on_material_price_change(
                       material_id, view, prices, labor) :
              /\ sessions' = Append(sessions,
                     [material_id |-> material_id,
                      status      |-> "running",
                      cost        |-> o.cost,
                      written     |-> WrittenProducts(o.cost),
                      products    |-> {r.product_id : r \in ConsumerRows(material_id)},
                      overlapped  |-> {i \in DOMAIN sessions :
                                          sessions[i].status = "running"}])
              /\ ret' = [op |-> "recalculate_run", session |-> Len(sessions) + 1]
    /\ UNCHANGED <<bomVars, planVars, stockVars>>

\* db.commit() of the request: the pending cost_price values are stored
RecalculateCostsCommit(s) ==
    /\ s \in DOMAIN sessions
    /\ sessions[s].status = "running"
    /\ costPrice' = [p \in Products |->
                       IF p \in sessions[s].written
                       THEN Round4(sessions[s].cost[p]) ELSE costPrice[p]]
    /\ sessions' = [sessions EXCEPT ![s].status = "committed"]
    /\ ret' = [op |-> "recalculate_commit", session |-> s]
    /\ UNCHANGED <<batchSpec, bomMaterials, bomSemiProducts, bomLabor, priceHistory>>
    /\ UNCHANGED <<planVars, stockVars>>

\* the BOM rows and the quotations entered while recalculations run
EnterSessionData ==
    \/ \E r \in {<<"F", "M", 2, RInt(9000)>>, <<"S2", "M", 5, RNone>>} :
          AddMaterialToBom(r[1], r[2], RInt(r[3]), r[4], NoDate)
    \/ \E r \in {<<1, 10000>>, <<2, 12000>>} :
          ImportMaterialPrice("M", r[1], RInt(r[2]))

NextSessions ==
    \/ EnterSessionData
    \/ RecalculateCostsRun("M")
    \/ \E s \in 1..MaxSessions : RecalculateCostsCommit(s)

SpecSessions == InitCost /\ [][NextSessions]_vars

\* the cost_price values the committed BOM and prices give a product
CommittedCosts(product_id) ==
    {Round4(calculate_product_cost_from_bom(product_id, NoDate, view, prices, labor).total_cost) :
        view \in BomViews(Today), prices \in PriceViews(Today), labor \in LaborViews}

\* the pairs of sessions that ran at the same time and have both committed
ConcurrentCommitted ==
    {<<i, j>> \in (DOMAIN sessions) \X (DOMAIN sessions) :
        /\ i \in sessions[j].overlapped
        /\ sessions[i].status = "committed"
        /\ sessions[j].status = "committed"}

-----------------------------------------------------------------------------
(* Orders created by one planning run                                      *)

\* C22: a run of generate_production_orders_from_sales_orders creates at most
\* one production order per (product, production date).
C22_OneOrderPerProductAndDate ==
    ret.op = "generate" =>
        \A i, j \in DOMAIN ret.created_orders :
            (/\ ret.created_orders[i].product_id = ret.created_orders[j].product_id
             /\ ret.created_orders[i].production_date = ret.created_orders[j].production_date)
            => i = j

-----------------------------------------------------------------------------
(* Demand for semi-products                                                *)

RecursionLimit == 4  \* frames of calculate_btp_demand_from_product the
                     \* interpreter allows (sys.getrecursionlimit, scaled)

\* a query that leaves out the rows naming the product as its own component
BtpComponentRowsNoSelf(product_id) ==
    {r \in bomSemiProducts : /\ r.semi_product_id = product_id
                             /\ r.component_id \in Products
                             /\ r.component_id # product_id}

\* the BomSemiProduct rows of a product joined with their component
BtpComponentRows(product_id) ==
    {r \in bomSemiProducts : r.semi_product_id = product_id /\ r.component_id \in Products}

\* batch_count of one BomSemiProduct row: 1.0 unless the batch spec holds a
\* positive number
BtpBatchCount(required_qty, batch_spec) ==
    IF NoSpec(batch_spec) THEN 1
    ELSE LET batch_size == FirstNumber(batch_spec)
         IN  IF batch_size # RNone /\ RPos(batch_size)
             THEN RCeil(RDiv(required_qty, batch_size))
             ELSE 1

\* a line merged into btp_demand: the quantity is added, the batch count is
\* the larger of the two
MergeBtp(btp_demand, btp_id, required_qty, batch_count) ==
    IF btp_id \in DOMAIN btp_demand
    THEN [btp_demand EXCEPT ![btp_id] =
             [required_qty |-> RAdd(@.required_qty, required_qty),
              batch_count  |-> Max(@.batch_count, batch_count)]]
    ELSE btp_demand @@ (btp_id :> [required_qty |-> required_qty,
                                   batch_count  |-> batch_count])

\* the loop `for child_btp in child_btp_demand`
RECURSIVE MergeChildBtp(_, _, _)
MergeChildBtp(btp_demand, child_btp_demand, ids) ==
    IF ids = {} THEN btp_demand
    ELSE LET child_id == CHOOSE x \in ids : TRUE
         IN  MergeChildBtp(MergeBtp(btp_demand, child_id,
                                    child_btp_demand[child_id].required_qty,
                                    child_btp_demand[child_id].batch_count),
                           child_btp_demand, ids \ {child_id})

\* calculate_btp_demand_from_product at recursion depth `depth`: the lines per
\* semi-product, or the error that ended the call.  Sums and maxima do not
\* depend on the row order of the query, so the rows are taken in any order.
RECURSIVE calculate_btp_demand_from_product(_, _, _)
RECURSIVE BtpDemandOfRows(_, _, _, _)
calculate_btp_demand_from_product(product_id, planned_qty, depth) ==
    IF depth > RecursionLimit THEN [error |-> "RecursionError", demand |-> <<>>]
    ELSE IF product_id \notin Products THEN [error |-> "ValueError", demand |-> <<>>]
    ELSE BtpDemandOfRows(BtpComponentRows(product_id), planned_qty, depth, <<>>)

BtpDemandOfRows(rows, planned_qty, depth, btp_demand) ==
    IF rows = {} THEN [error |-> "", demand |-> btp_demand]
    ELSE LET bom_semi     == CHOOSE r \in rows : TRUE
             component_id == bom_semi.component_id
             required_qty == RMul(planned_qty, bom_semi.quantity)
             batch_count  == BtpBatchCount(required_qty, batchSpec[component_id])
             child        == calculate_btp_demand_from_product(
                                 component_id, required_qty, depth + 1)
         IN  IF group[component_id] # "BTP"
             THEN BtpDemandOfRows(rows \ {bom_semi}, planned_qty, depth, btp_demand)
             ELSE IF child.error # "" THEN child
             ELSE BtpDemandOfRows(
                      rows \ {bom_semi}, planned_qty, depth,
                      MergeChildBtp(MergeBtp(btp_demand, component_id,
                                             required_qty, batch_count),
                                    child.demand, DOMAIN child.demand))

\* POST /api/production/planning/calculate-btp-demand
CalculateBtpDemand(product_id, planned_qty) ==
    /\ planned_qty > 0
    /\ LET r == calculate_btp_demand_from_product(product_id, RInt(planned_qty), 1)
       IN  ret' = [op |-> "calculate_btp_demand", product_id |-> product_id,
                   planned_qty |-> planned_qty,
                   status |-> IF r.error = "" THEN 200
                              ELSE IF r.error = "ValueError" THEN 404 ELSE 500,
                   error |-> r.error,
                   btp_requirements |-> r.demand]
    /\ UNCHANGED <<bomVars, planVars, stockVars, sessions>>

\* the material plans calculate_material_requirement_plan can return
calculate_material_requirement_plan(s, e, deduct_stock) ==
    LET in_range == {o \in DOMAIN productionOrders :
                        /\ productionOrders[o].production_date >= s
                        /\ productionOrders[o].production_date <= e}
    IN  UNION {{LET totals == MergeOrders(<<>>, in_range, exploded)
                IN  [m \in DOMAIN totals |-> PlanLine(m, totals[m], deduct_stock)] :
                  exploded \in Choices([o \in in_range \ failed |-> ExplosionsOf(o)])} :
               failed \in SUBSET in_range}

\* a line of an order merged into btp_requirements_map: only the quantity is
\* added
MergeSummaryBtp(btp_requirements_map, btp_id, btp) ==
    IF btp_id \in DOMAIN btp_requirements_map
    THEN [btp_requirements_map EXCEPT ![btp_id].required_qty = RAdd(@, btp.required_qty)]
    ELSE btp_requirements_map @@ (btp_id :> btp)

RECURSIVE MergeSummaryLines(_, _, _)
MergeSummaryLines(btp_requirements_map, btp_demand, ids) ==
    IF ids = {} THEN btp_requirements_map
    ELSE LET btp_id == CHOOSE x \in ids : TRUE
         IN  MergeSummaryLines(
                 MergeSummaryBtp(btp_requirements_map, btp_id, btp_demand[btp_id]),
                 btp_demand, ids \ {btp_id})

\* the loop over production_orders of the summary: orders of finished
\* products only, an order whose demand raised is left out
RECURSIVE SummaryBtpRequirements(_, _)
SummaryBtpRequirements(btp_requirements_map, orders) ==
    IF orders = {} THEN btp_requirements_map
    ELSE LET o  == CHOOSE x \in orders : TRUE
             po == productionOrders[o]
             r  == calculate_btp_demand_from_product(po.product_id, RInt(po.planned_qty), 1)
         IN  SummaryBtpRequirements(
                 IF group[po.product_id] = "TP" /\ r.error = ""
                 THEN MergeSummaryLines(btp_requirements_map, r.demand, DOMAIN r.demand)
                 ELSE btp_requirements_map,
                 orders \ {o})

\* GET /api/production/planning/summary
PlanningSummary(start_date, end_date) ==
    LET s        == IF start_date = NoDate THEN Today ELSE start_date
        e        == IF end_date = NoDate THEN s + 30 ELSE end_date
        in_range == {o \in DOMAIN productionOrders :
                        /\ productionOrders[o].production_date >= s
                        /\ productionOrders[o].production_date <= e}
    IN  /\ \E material_requirements \in calculate_material_requirement_plan(s, e, TRUE) :
              ret' = [op |-> "planning_summary", start_date |-> s, end_date |-> e,
                      total_orders |-> Cardinality(in_range),
                      total_products |->
                          Cardinality({productionOrders[o].product_id : o \in in_range}),
                      material_requirements |-> material_requirements,
                      btp_requirements |-> SummaryBtpRequirements(<<>>, in_range)]
        /\ UNCHANGED <<bomVars, planVars, stockVars, sessions>>

NextBtpDemand ==
    \/ \E r \in {<<"F", "S", Rat(3, 2)>>, <<"S", "S2", RInt(1)>>, <<"F", "S2", RInt(2)>>,
                 <<"S2", "S", RInt(1)>>, <<"S", "S", RInt(1)>>} :
          LoadBomSemiProduct(r[1], r[2], r[3])
    \/ \E d \in Days : CreateManualProductionOrder(d, "SP", "F", 10)
    \/ \E p \in {"F", "S", UnknownId} : CalculateBtpDemand(p, 10)
    \/ \E r \in {<<NoDate, NoDate>>, <<1, NoDate>>} : PlanningSummary(r[1], r[2])

SpecBtpDemand == InitExplode /\ [][NextBtpDemand]_vars

\* the component edges the recursion follows: BomSemiProduct rows whose
\* component is a semi-product
BtpEdges ==
    {<<r.semi_product_id, r.component_id>> :
        r \in {x \in bomSemiProducts : x.component_id \in Products
                                       /\ group[x.component_id] = "BTP"}}

\* the products reached from a set of products over the component edges
RECURSIVE ReachedFrom(_)
ReachedFrom(S) ==
    LET N == S \cup {e[2] : e \in {x \in BtpEdges : x[1] \in S}}
    IN  IF N = S THEN S ELSE ReachedFrom(N)

\* the component graph reachable from the product holds a cycle
CyclicFrom(product_id) ==
    \E n \in ReachedFrom({product_id}) :
        n \in ReachedFrom({e[2] : e \in {x \in BtpEdges : x[1] = n}})

C28_BatchesCoverDemand ==
    (ret.op \in {"calculate_btp_demand", "planning_summary"}) =>
        \A b \in DOMAIN ret.btp_requirements :
            LET line       == ret.btp_requirements[b]
                batch_size == IF NoSpec(batchSpec[b]) THEN RNone
                              ELSE FirstNumber(batchSpec[b])
            IN  (batch_size # RNone /\ RPos(batch_size)) =>
                    RLeq(line.required_qty, RMul(RInt(line.batch_count), batch_size))

-----------------------------------------------------------------------------
(* The explosion scales with the planned quantity                          *)

\* a requirement map with every quantity doubled
DoubledQuantities(materials) ==
    [m \in DOMAIN materials |->
        [required_quantity |-> RMul(RInt(2), materials[m].required_quantity)]]

\* C24: the explosion rounds no batch count, so for the same BOM reads the
\* leaf quantities of twice the planned quantity are exactly twice the leaf
\* quantities of the planned quantity.
C24_ExplosionDoubles ==
    ret.op = "material_requirements" =>
        \A semi \in get_bom_semi_products(ret.product_id), prices \in PriceViews(NoDate) :
            SameQuantities(
                DoubledQuantities(Explode(ret.product_id, RInt(ret.planned_qty),
                                          ret.view, semi, prices)),
                Explode(ret.product_id, RInt(2 * ret.planned_qty),
                        ret.view, semi, prices))

\* 100 F need 200 + 37.5 of M (7.5 batches of S); 200 F need 400 + 75
C24_Witness ==
    /\ ret.op = "material_requirements"
    /\ ret.planned_qty = 100
    /\ "M" \in DOMAIN ret.materials
    /\ ret.materials["M"].required_quantity = Rat(475, 2)
    /\ \E semi \in get_bom_semi_products("F"), prices \in PriceViews(NoDate) :
          Explode("F", RInt(200), ret.view, semi, prices)["M"].required_quantity = RInt(475)

-----------------------------------------------------------------------------
(* Updates of production order lines                                       *)
(*                                                                         *)
(* An order record carries ProductionOrder.planned_qty and, in             *)
(* line_planned_qty, the planned_qty of its ProductionOrderLine rows.      *)

\* func.sum(ProductionOrderLine.planned_qty) over the rows of the table: the
\* session does not autoflush, so the query reads the stored quantities
SumLines(line_planned_qty) == SeqSum(line_planned_qty)

\* the order after the block "Cập nhật tổng planned_qty": the stored sum
\* replaces planned_qty unless it is zero
WithStoredTotal(po) ==
    IF SumLines(po.line_planned_qty) # 0
    THEN [po EXCEPT !.planned_qty = SumLines(po.line_planned_qty)]
    ELSE po

\* the pending changes of the lines, sent by the commit
RECURSIVE ApplyLineUpdates(_, _)
ApplyLineUpdates(line_planned_qty, updates) ==
    IF updates = <<>> THEN line_planned_qty
    ELSE ApplyLineUpdates(
             [line_planned_qty EXCEPT ![Head(updates).line_id] = Head(updates).planned_qty],
             Tail(updates))

\* PUT /api/production/orders/{order_id}/lines/{line_id} with a planned_qty
UpdateProductionOrderLine(order_id, line_id, planned_qty) ==
    /\ IF \/ order_id \notin DOMAIN productionOrders
          \/ line_id \notin DOMAIN productionOrders[order_id].line_planned_qty
          \/ planned_qty < 0
       THEN /\ ret' = [op |-> "update_line", status |-> 404,
                       order_id |-> order_id, line_id |-> line_id]
            /\ UNCHANGED productionOrders
       ELSE LET po   == productionOrders[order_id]
                spec == batchSpec[po.product_id]
                po1  == WithStoredTotal(po)
            IN  /\ productionOrders' =
                      [productionOrders EXCEPT ![order_id] =
                          [po1 EXCEPT
                              !.line_planned_qty = ApplyLineUpdates(
                                  @, <<[line_id |-> line_id, planned_qty |-> planned_qty]>>),
                              !.batch_count = IF NoSpec(spec) THEN @
                                              ELSE calculate_batch_count(planned_qty, spec)]]
                /\ ret' = [op |-> "update_line", status |-> 200,
                           order_id |-> order_id, line_id |-> line_id,
                           planned_qty |-> planned_qty]
    /\ UNCHANGED <<salesLines, snapshots, planDays>>
    /\ UNCHANGED <<bomVars, stockVars, sessions>>

\* the last planned_qty the updates give the first line (batch_count follows
\* the line it belongs to)
RECURSIVE LastQtyOf(_, _, _)
LastQtyOf(updates, line_id, none) ==
    IF updates = <<>> THEN none
    ELSE LastQtyOf(Tail(updates), line_id,
                   IF Head(updates).line_id = line_id THEN Head(updates).planned_qty
                   ELSE none)

\* PUT /api/production/orders/{order_id}/lines with a list of updates
BulkUpdateProductionOrderLines(order_id, updates) ==
    /\ updates # <<>>
    /\ IF \/ order_id \notin DOMAIN productionOrders
          \/ \E i \in DOMAIN updates :
                \/ updates[i].line_id \notin DOMAIN productionOrders[order_id].line_planned_qty
                \/ updates[i].planned_qty < 0
       THEN /\ ret' = [op |-> "bulk_update_lines", status |-> 400, order_id |-> order_id]
            /\ UNCHANGED productionOrders
       ELSE LET po   == productionOrders[order_id]
                spec == batchSpec[po.product_id]
                po1  == WithStoredTotal(po)
                last == LastQtyOf(updates, 1, -1)
            IN  /\ productionOrders' =
                      [productionOrders EXCEPT ![order_id] =
                          [po1 EXCEPT
                              !.line_planned_qty = ApplyLineUpdates(@, updates),
                              !.batch_count = IF NoSpec(spec) \/ last = -1 THEN @
                                              ELSE calculate_batch_count(last, spec)]]
                /\ ret' = [op |-> "bulk_update_lines", status |-> 200,
                           order_id |-> order_id, updates |-> updates]
    /\ UNCHANGED <<salesLines, snapshots, planDays>>
    /\ UNCHANGED <<bomVars, stockVars, sessions>>

\* the quantities sent in the updates of the model
LineQuantitiesSent == {-1, 0, 60}

NextLines ==
    \/ \E r \in {<<"SP", "F", 100>>, <<"BTP", "S", 40>>}, d \in Days :
          CreateManualProductionOrder(d, r[1], r[2], r[3])
    \/ \E o \in 1..MaxOrders, l \in 1..2, q \in LineQuantitiesSent :
          UpdateProductionOrderLine(o, l, q)
    \/ \E o \in 1..MaxOrders, q1 \in LineQuantitiesSent, q2 \in LineQuantitiesSent :
          \E updates \in {<<[line_id |-> 1, planned_qty |-> q1]>>,
                          <<[line_id |-> 1, planned_qty |-> q1],
                            [line_id |-> 1, planned_qty |-> q2]>>,
                          <<[line_id |-> 2, planned_qty |-> q1]>>} :
              BulkUpdateProductionOrderLines(o, updates)

SpecLines == InitCost /\ [][NextLines]_vars

\* C27: after an update of one line or of several lines has returned and its
\* session has committed, ProductionOrder.planned_qty is the sum of the
\* planned_qty of all the lines of the order, the values just written
\* included, also when that sum is zero.
C27_OrderTotalIsSumOfLines ==
    (ret.op \in {"update_line", "bulk_update_lines"} /\ ret.status = 200) =>
        productionOrders[ret.order_id].planned_qty =
            SumLines(productionOrders[ret.order_id].line_planned_qty)

-----------------------------------------------------------------------------
(* Stock documents and stock-taking                                        *)
(*                                                                         *)
(* InventorySnapshot.total_in, total_out and current_qty are Numeric       *)
(* columns: a stored value is read back as a decimal.Decimal, while the    *)
(* quantities of the handlers are floats and the fields of a snapshot      *)
(* built by a handler are the int 0.  Python adds and subtracts an int and *)
(* a Decimal, an int and a float, but raises TypeError for a Decimal and a *)
(* float, so a number of a handler is kept with its kind.                  *)

MaxStockDocuments == 2
MaxStockTakings == 1

StockKeys == Products \X Warehouses

Num(v, k) == [v |-> v, k |-> k]

\* the operation raised TypeError: every later use raises again
TypeErrorNum == Num(0, "TypeError")

\* `x or 0`
OrZeroNum(x) == IF x.k # "TypeError" /\ x.v = 0 THEN Num(0, "int") ELSE x

\* the type of a sum or difference that Python accepts
ResultKind(a, b) ==
    IF "float" \in {a.k, b.k} THEN "float"
    ELSE IF "Decimal" \in {a.k, b.k} THEN "Decimal"
    ELSE "int"

\* a + b and a - b raise TypeError for a Decimal and a float
Raises(a, b) ==
    \/ "TypeError" \in {a.k, b.k}
    \/ {a.k, b.k} = {"Decimal", "float"}

NumAdd(a, b) == IF Raises(a, b) THEN TypeErrorNum ELSE Num(a.v + b.v, ResultKind(a, b))
NumSub(a, b) == IF Raises(a, b) THEN TypeErrorNum ELSE Num(a.v - b.v, ResultKind(a, b))

\* a snapshot as the session loads it
LoadSnapshot(s) ==
    [exists      |-> s.exists,
     total_in    |-> Num(s.total_in, "Decimal"),
     total_out   |-> Num(s.total_out, "Decimal"),
     current_qty |-> Num(s.current_qty, "Decimal")]

\* InventorySnapshot(total_in=0, total_out=0, current_qty=0), added and flushed
NewSnapshot ==
    [exists      |-> TRUE,
     total_in    |-> Num(0, "int"),
     total_out   |-> Num(0, "int"),
     current_qty |-> Num(0, "int")]

\* the snapshots of the session at the start of a request
LoadedSnapshots == [x \in StockKeys |-> LoadSnapshot(inventory[x])]

\* the snapshots written by the commit
StoredSnapshots(rows) ==
    [x \in StockKeys |->
        [total_in    |-> rows[x].total_in.v,
         total_out   |-> rows[x].total_out.v,
         current_qty |-> rows[x].current_qty.v,
         exists      |-> rows[x].exists]]

\* an update of a snapshot has raised TypeError
RaisedTypeError(rows) ==
    \E x \in StockKeys :
        "TypeError" \in {rows[x].total_in.k, rows[x].total_out.k, rows[x].current_qty.k}

\* the planning service reads the current_qty column
CurrentQuantities(inv) == [x \in StockKeys |-> inv[x].current_qty]

\* an update that forgets to recompute current_qty
UpdateSnapshotTotalsOnly(rows, product_id, warehouse, doc_type, quantity) ==
    LET inv == IF rows[<<product_id, warehouse>>].exists
               THEN rows[<<product_id, warehouse>>] ELSE NewSnapshot
        q   == Num(quantity, "float")
    IN  [rows EXCEPT ![<<product_id, warehouse>>] =
            [inv EXCEPT
                !.total_in  = IF doc_type = "N" THEN NumAdd(OrZeroNum(@), q) ELSE @,
                !.total_out = IF doc_type = "N" THEN @ ELSE NumAdd(OrZeroNum(@), q)]]

\* the block "Cập nhật InventorySnapshot" for one document line: the snapshot
\* is loaded or created, a total grows by the quantity of the line and
\* current_qty is recomputed from the totals
UpdateSnapshot(rows, product_id, warehouse, doc_type, quantity) ==
    LET inv == IF rows[<<product_id, warehouse>>].exists
               THEN rows[<<product_id, warehouse>>] ELSE NewSnapshot
        q   == Num(quantity, "float")
        tin == IF doc_type = "N" THEN NumAdd(OrZeroNum(inv.total_in), q)
               ELSE inv.total_in
        tout == IF doc_type = "N" THEN inv.total_out
                ELSE NumAdd(OrZeroNum(inv.total_out), q)
    IN  [rows EXCEPT ![<<product_id, warehouse>>] =
            [exists      |-> TRUE,
             total_in    |-> tin,
             total_out   |-> tout,
             current_qty |-> NumSub(OrZeroNum(tin), OrZeroNum(tout))]]

\* the loop over the lines of a document
RECURSIVE PostLines(_, _, _, _)
PostLines(rows, lines, warehouse, doc_type) ==
    IF lines = <<>> THEN rows
    ELSE PostLines(UpdateSnapshot(rows, Head(lines).product_id, warehouse,
                                  doc_type, Head(lines).quantity),
                   Tail(lines), warehouse, doc_type)

\* a StockDocument with its StockDocumentLine rows
StockDocument(doc_type, warehouse, description, lines) ==
    [doc_type    |-> doc_type,
     warehouse   |-> warehouse,
     description |-> description,
     lines       |-> lines]

\* a StockDocumentLine
DocumentLine(product_id, doc_type, quantity) ==
    [product_id |-> product_id,
     quantity   |-> quantity,
     signed_qty |-> IF doc_type = "N" THEN quantity ELSE -quantity]

\* the stored current_qty of a pair, 0 without a snapshot
StoredQty(product_id, warehouse) ==
    IF inventory[<<product_id, warehouse>>].exists
    THEN inventory[<<product_id, warehouse>>].current_qty
    ELSE 0

\* an issue is never refused
IssueNeverRefused(current_qty, signed_qty) == FALSE

\* "Check tồn kho khi xuất": the line would make the stored stock negative
IssueRefused(current_qty, signed_qty) == current_qty + signed_qty < 0

\* the lines the first loop keeps: a line without a positive quantity is skipped
ValidLines(lines) == SelectSeq(lines, LAMBDA l : l.quantity > 0)

\* the result left unchanged by a request that was refused or rolled back
StockUnchanged == UNCHANGED <<inventory, stockDocuments, stockTakings, snapshots>>

\* what a stock request leaves alone
StockFrame == UNCHANGED <<bomVars, sessions, salesLines, planDays, productionOrders>>

\* POST /api/inventory/documents
CreateStockDocument(doc_type, warehouse_code, lines) ==
    /\ Len(stockDocuments) < MaxStockDocuments
    /\ LET valid == ValidLines(lines)
           call  == [op |-> "create_stock_document", doc_type |-> doc_type,
                     warehouse_code |-> warehouse_code, lines |-> lines]
           rows  == PostLines(LoadedSnapshots,
                              [i \in DOMAIN valid |->
                                  DocumentLine(valid[i].product_code, doc_type,
                                               valid[i].quantity)],
                              warehouse_code, doc_type)
       IN  IF \/ doc_type \notin {"N", "X"}
              \/ lines = <<>>
              \/ warehouse_code \notin Warehouses
              \/ \E i \in DOMAIN valid :
                    \/ valid[i].product_code \notin Products
                    \/ /\ doc_type = "X"
                       /\ IssueRefused(StoredQty(valid[i].product_code, warehouse_code),
                                       -valid[i].quantity)
              \/ valid = <<>>
           THEN /\ ret' = call @@ [status |-> 400]
                /\ StockUnchanged
           ELSE IF RaisedTypeError(rows)
           THEN /\ ret' = call @@ [status |-> 500]
                /\ StockUnchanged
           ELSE /\ stockDocuments' = Append(stockDocuments,
                      StockDocument(doc_type, warehouse_code, <<"api">>,
                          [i \in DOMAIN valid |->
                              DocumentLine(valid[i].product_code, doc_type,
                                           valid[i].quantity)]))
                /\ inventory' = StoredSnapshots(rows)
                /\ snapshots' = CurrentQuantities(inventory')
                /\ ret' = call @@ [status |-> 201]
                /\ UNCHANGED stockTakings
    /\ StockFrame

\* the StockTakingLine rows of a stock-taking: a line of an unknown product is
\* skipped, book_qty is the stored current_qty
StockTakingLines(warehouse, lines) ==
    LET known == SelectSeq(lines, LAMBDA l : l.product_code \in Products)
    IN  [i \in DOMAIN known |->
            [product_id         |-> known[i].product_code,
             book_qty           |-> StoredQty(known[i].product_code, warehouse),
             counted_qty        |-> known[i].counted_qty,
             difference_qty     |-> known[i].counted_qty
                                      - StoredQty(known[i].product_code, warehouse),
             adjustment_created |-> FALSE]]

\* POST /api/inventory/stock-taking
CreateStockTaking(warehouse_code, lines) ==
    /\ Len(stockTakings) < MaxStockTakings
    /\ IF warehouse_code \notin Warehouses
       THEN /\ ret' = [op |-> "create_stock_taking", status |-> 400]
            /\ UNCHANGED stockTakings
       ELSE /\ stockTakings' = Append(stockTakings,
                  [warehouse |-> warehouse_code,
                   status    |-> "draft",
                   lines     |-> StockTakingLines(warehouse_code, lines)])
            /\ ret' = [op |-> "create_stock_taking", status |-> 201,
                       id |-> Len(stockTakings) + 1]
    /\ UNCHANGED <<inventory, stockDocuments, snapshots>>
    /\ StockFrame

\* a handler that does not look at the status
AlreadyLockedIgnored(stocktaking) == FALSE

\* stocktaking.status == "locked"
AlreadyLocked(stocktaking) == stocktaking.status = "locked"

\* PUT /api/inventory/stock-taking/{id} with new lines
UpdateStockTaking(stocktaking_id, lines) ==
    /\ LET call == [op |-> "update_stock_taking", id |-> stocktaking_id]
       IN  IF stocktaking_id \notin DOMAIN stockTakings
           THEN /\ ret' = call @@ [status |-> 404]
                /\ UNCHANGED stockTakings
           ELSE IF AlreadyLocked(stockTakings[stocktaking_id])
           THEN /\ ret' = call @@ [status |-> 400]
                /\ UNCHANGED stockTakings
           ELSE /\ stockTakings' =
                      [stockTakings EXCEPT ![stocktaking_id].lines =
                          StockTakingLines(stockTakings[stocktaking_id].warehouse, lines)]
                /\ ret' = call @@ [status |-> 200]
    /\ UNCHANGED <<inventory, stockDocuments, snapshots>>
    /\ StockFrame

\* the lines of a stock-taking that still need an adjustment
PendingLines(stocktaking) ==
    {i \in DOMAIN stocktaking.lines :
        /\ stocktaking.lines[i].difference_qty # 0
        /\ ~stocktaking.lines[i].adjustment_created}

\* by_doc_type[doc_type]: the adjustment lines of one document type
AdjustmentLines(stocktaking, doc_type) ==
    LET pending == SelectSeq(stocktaking.lines,
                      LAMBDA l : /\ l.difference_qty # 0
                                 /\ ~l.adjustment_created
                                 /\ (l.difference_qty > 0) = (doc_type = "N"))
    IN  [i \in DOMAIN pending |->
            DocumentLine(pending[i].product_id, doc_type, Abs(pending[i].difference_qty))]

\* the adjustment documents, in the order of by_doc_type
AdjustmentDocuments(stocktaking_id, order) ==
    [i \in DOMAIN order |->
        StockDocument(order[i], stockTakings[stocktaking_id].warehouse,
                      <<"stocktaking", stocktaking_id>>,
                      AdjustmentLines(stockTakings[stocktaking_id], order[i]))]

\* the snapshots after the lines of the adjustment documents
RECURSIVE PostDocuments(_, _)
PostDocuments(rows, docs) ==
    IF docs = <<>> THEN rows
    ELSE PostDocuments(PostLines(rows, Head(docs).lines, Head(docs).warehouse,
                                 Head(docs).doc_type),
                       Tail(docs))

\* POST /api/inventory/stock-taking/{id}/lock
LockStockTaking(stocktaking_id) ==
    /\ LET call == [op |-> "lock_stock_taking", id |-> stocktaking_id]
       IN  IF stocktaking_id \notin DOMAIN stockTakings
           THEN /\ ret' = call @@ [status |-> 404]
                /\ StockUnchanged
           ELSE IF AlreadyLocked(stockTakings[stocktaking_id])
           THEN /\ ret' = call @@ [status |-> 400]
                /\ StockUnchanged
           ELSE IF PendingLines(stockTakings[stocktaking_id]) = {}
           THEN /\ stockTakings' = [stockTakings EXCEPT ![stocktaking_id].status = "locked"]
                /\ ret' = call @@ [status |-> 200, adjustments_created |-> 0]
                /\ UNCHANGED <<inventory, stockDocuments, snapshots>>
           ELSE LET st    == stockTakings[stocktaking_id]
                    types == {t \in {"N", "X"} : AdjustmentLines(st, t) # <<>>}
                IN  \E order \in Orderings(types) :
                       LET docs == AdjustmentDocuments(stocktaking_id, order)
                           rows == PostDocuments(LoadedSnapshots, docs)
                       IN  IF RaisedTypeError(rows)
                           THEN /\ ret' = call @@ [status |-> 500]
                                /\ StockUnchanged
                           ELSE /\ stockDocuments' = stockDocuments \o docs
                                /\ inventory' = StoredSnapshots(rows)
                                /\ snapshots' = CurrentQuantities(inventory')
                                /\ stockTakings' =
                                      [stockTakings EXCEPT ![stocktaking_id] =
                                          [status    |-> "locked",
                                           warehouse |-> st.warehouse,
                                           lines     |->
                                              [i \in DOMAIN st.lines |->
                                                  IF i \in PendingLines(st)
                                                  THEN [st.lines[i] EXCEPT
                                                           !.adjustment_created = TRUE]
                                                  ELSE st.lines[i]]]]
                                /\ ret' = call @@ [status |-> 200,
                                                   adjustments_created |-> Len(docs)]
    /\ StockFrame

\* a ProductionOrder of the sheet 'lenh_sx' is migrated, with or without a
\* line of the sheet 'lenh_sx_ct'
ImportProductionOrder(production_date, product_id, planned_qty, completed_qty, status, with_line) ==
    /\ Len(productionOrders) < MaxOrders
    /\ productionOrders' = Append(productionOrders,
          [business_seq     |-> Len(productionOrders) + 1,
           production_date  |-> production_date,
           order_type       |-> "SP",
           product_id       |-> product_id,
           planned_qty      |-> planned_qty,
           completed_qty    |-> completed_qty,
           line_planned_qty |-> IF with_line THEN <<planned_qty>> ELSE <<>>,
           batch_count      |-> 1,
           status           |-> status])
    /\ ret' = [op |-> "import_order"]
    /\ UNCHANGED <<salesLines, snapshots, planDays>>
    /\ UNCHANGED <<bomVars, stockVars, sessions>>

\* the warehouse type of the product of a completed order, "" if none
WarehouseTypeOf(product_id) ==
    CASE group[product_id] = "BTP"          -> "BTP"
      [] group[product_id] \in {"TP", "SP"} -> "TP"
      [] OTHER                              -> ""

\* POST /api/inventory/documents/from-production-order/{order_id}
CreateStockDocumentFromProductionOrder(order_id) ==
    /\ Len(stockDocuments) < MaxStockDocuments
    /\ LET call == [op |-> "from_production_order", order_id |-> order_id]
       IN  IF \/ order_id \notin DOMAIN productionOrders
              \/ productionOrders[order_id].status # "completed"
              \/ productionOrders[order_id].completed_qty <= 0
              \/ WarehouseTypeOf(productionOrders[order_id].product_id) = ""
              \/ productionOrders[order_id].line_planned_qty = <<>>
           THEN /\ ret' = call @@ [status |-> 400]
                /\ StockUnchanged
           ELSE LET po == productionOrders[order_id]
                IN  \E warehouse \in {w \in Warehouses :
                                        warehouseType[w] = WarehouseTypeOf(po.product_id)} :
                       LET line == DocumentLine(po.product_id, "N", po.completed_qty)
                           rows == PostLines(LoadedSnapshots, <<line>>, warehouse, "N")
                       IN  IF RaisedTypeError(rows)
                           THEN /\ ret' = call @@ [status |-> 500]
                                /\ StockUnchanged
                           ELSE /\ stockDocuments' = Append(stockDocuments,
                                      StockDocument("N", warehouse,
                                                    <<"production_order", order_id>>,
                                                    <<line>>))
                                /\ inventory' = StoredSnapshots(rows)
                                /\ snapshots' = CurrentQuantities(inventory')
                                /\ ret' = call @@ [status |-> 201]
                                /\ UNCHANGED stockTakings
    /\ StockFrame

\* a required quantity of the stock model is a whole number
Whole(q) == q.n \div q.d

\* the loop over material_requirements: the first material without enough
\* stored stock raises ValueError, a snapshot update may raise TypeError
RECURSIVE IssueMaterials(_, _, _, _)
IssueMaterials(out, order, totals, warehouse) ==
    IF order = <<>> \/ out.error # "" THEN out
    ELSE LET m == Head(order)
             q == totals[m]
         IN  IF m \notin Products
             THEN IssueMaterials(out, Tail(order), totals, warehouse)
             ELSE IF RLess(RInt(StoredQty(m, warehouse)), q)
             THEN [out EXCEPT !.error = "ValueError"]
             ELSE LET rows == UpdateSnapshot(out.rows, m, warehouse, "X", Whole(q))
                  IN  IssueMaterials(
                          [rows  |-> rows,
                           lines |-> Append(out.lines, DocumentLine(m, "X", Whole(q))),
                           error |-> IF RaisedTypeError(rows) THEN "TypeError" ELSE ""],
                          Tail(order), totals, warehouse)

\* POST /api/inventory/documents/from-production-date
CreateStockDocumentFromProductionDate(production_date, warehouse_code) ==
    /\ Len(stockDocuments) < MaxStockDocuments
    /\ LET call   == [op |-> "from_production_date", production_date |-> production_date,
                      warehouse_code |-> warehouse_code]
           orders == {o \in DOMAIN productionOrders :
                        /\ productionOrders[o].production_date = production_date
                        /\ productionOrders[o].status # "cancelled"}
       IN  IF warehouse_code \notin Warehouses \/ orders = {}
           THEN /\ ret' = call @@ [status |-> 400]
                /\ StockUnchanged
           ELSE \E exploded \in Choices([o \in orders |-> ExplosionsOf(o)]) :
                   LET totals == MergeOrders(<<>>, orders, exploded)
                   IN  IF DOMAIN totals = {}
                       THEN /\ ret' = call @@ [status |-> 400]
                            /\ StockUnchanged
                       ELSE \E order \in Orderings(DOMAIN totals) :
                               LET out == IssueMaterials(
                                              [rows |-> LoadedSnapshots, lines |-> <<>>,
                                               error |-> ""],
                                              order, totals, warehouse_code)
                               IN  IF out.error # ""
                                   THEN /\ ret' = call @@
                                              [status |-> IF out.error = "ValueError"
                                                          THEN 400 ELSE 500]
                                        /\ StockUnchanged
                                   ELSE /\ stockDocuments' = Append(stockDocuments,
                                              StockDocument("X", warehouse_code,
                                                  <<"production_date", production_date>>,
                                                  out.lines))
                                        /\ inventory' = StoredSnapshots(out.rows)
                                        /\ snapshots' = CurrentQuantities(inventory')
                                        /\ ret' = call @@ [status |-> 201]
                                        /\ UNCHANGED stockTakings
    /\ StockFrame

\* the line lists of the requests: a line without a quantity, one line, two
\* lines of one product
DocumentLineLists ==
    {<<[product_code |-> "M", quantity |-> 0]>>,
     <<[product_code |-> "M", quantity |-> 4]>>,
     <<[product_code |-> "M", quantity |-> 4], [product_code |-> "M", quantity |-> 4]>>}

\* the counts of the stock-takings: a count equal to the book quantity of an
\* empty warehouse, a surplus, a surplus and a shortage
StockTakingLineLists ==
    {<<[product_code |-> "M", counted_qty |-> 0]>>,
     <<[product_code |-> "M", counted_qty |-> 4]>>,
     <<[product_code |-> "M", counted_qty |-> 4],
       [product_code |-> "M2", counted_qty |-> -2]>>}

InitStock == InitCost

NextStock ==
    \/ \E t \in {"N", "X"}, lines \in DocumentLineLists :
          CreateStockDocument(t, "KHO_NVL", lines)
    \/ \E lines \in StockTakingLineLists : CreateStockTaking("KHO_NVL", lines)
    \/ \E t \in 1..MaxStockTakings, lines \in StockTakingLineLists :
          UpdateStockTaking(t, lines)
    \/ \E t \in 1..MaxStockTakings : LockStockTaking(t)
    \/ ImportProductionOrder(Today, "F", 4, 3, "completed", TRUE)
    \/ \E q \in {0, 2} : AddMaterialToBom("F", "M", RInt(q), RNone, NoDate)
    \/ CreateStockDocumentFromProductionOrder(1)
    \/ CreateStockDocumentFromProductionDate(Today, "KHO_NVL")

SpecStock == InitStock /\ [][NextStock]_vars

\* the quantity of a product that the valid lines of a request issue
RECURSIVE IssuedQuantity(_, _)
IssuedQuantity(lines, product_code) ==
    IF lines = <<>> THEN 0
    ELSE (IF Head(lines).product_code = product_code /\ Head(lines).quantity > 0
          THEN Head(lines).quantity ELSE 0)
         + IssuedQuantity(Tail(lines), product_code)

\* C25: an issue document posted through create_stock_document never makes
\* stock negative.  If the lines of the document, several lines of one
\* product included, would bring the current_qty of a (product, warehouse)
\* below zero, the request does not succeed and no document, line or snapshot
\* changes; a snapshot that is not negative before the call is not negative
\* after it.
C25_IssueNeverNegative ==
    [][(ret'.op = "create_stock_document" /\ ret'.doc_type = "X") =>
          /\ \A x \in StockKeys :
                inventory[x].current_qty >= 0 => inventory'[x].current_qty >= 0
          /\ (\E p \in Products :
                 StoredQty(p, ret'.warehouse_code) - IssuedQuantity(ret'.lines, p) < 0)
             => /\ ret'.status # 201
                /\ UNCHANGED <<inventory, stockDocuments, stockTakings>>]_vars

\* an issue of 4 + 4 of M against a stock of 4 did not succeed: each line
\* alone is covered by the stock, the two together are not
C25_Witness ==
    /\ ret.op = "create_stock_document"
    /\ ret.doc_type = "X"
    /\ Len(ret.lines) = 2
    /\ ret.status # 201
    /\ inventory[<<"M", "KHO_NVL">>].current_qty = 4

\* C26: after lock_stock_taking has succeeded, the current_qty of the
\* (product, warehouse) of every line of the stock-taking equals the
\* counted_qty of the line, whatever documents were posted between the
\* creation of the lines and the lock.
C26_LockedCountsMatchStock ==
    (ret.op = "lock_stock_taking" /\ ret.status = 200) =>
        \A i \in DOMAIN stockTakings[ret.id].lines :
            StoredQty(stockTakings[ret.id].lines[i].product_id,
                      stockTakings[ret.id].warehouse)
                = stockTakings[ret.id].lines[i].counted_qty

\* the operations that post stock documents
StockOperations == {"create_stock_document", "from_production_order",
                    "from_production_date", "lock_stock_taking"}

\* the signed quantity that the lines of some documents post for a
\* (product, warehouse)
RECURSIVE SignedLines(_, _)
SignedLines(lines, product_id) ==
    IF lines = <<>> THEN 0
    ELSE (IF Head(lines).product_id = product_id THEN Head(lines).signed_qty ELSE 0)
         + SignedLines(Tail(lines), product_id)

RECURSIVE SignedPosted(_, _)
SignedPosted(docs, x) ==
    IF docs = <<>> THEN 0
    ELSE (IF Head(docs).warehouse = x[2] THEN SignedLines(Head(docs).lines, x[1]) ELSE 0)
         + SignedPosted(Tail(docs), x)

\* C29: every stock operation leaves each snapshot with
\* current_qty = total_in - total_out, never lowers total_in or total_out,
\* and changes current_qty by exactly the signed quantity of the document
\* lines it posts for that (product, warehouse).
C29_SnapshotsFollowDocuments ==
    [][ret'.op \in StockOperations =>
          \A x \in StockKeys :
             /\ inventory'[x].exists =>
                   inventory'[x].current_qty
                       = inventory'[x].total_in - inventory'[x].total_out
             /\ inventory'[x].total_in >= inventory[x].total_in
             /\ inventory'[x].total_out >= inventory[x].total_out
             /\ inventory'[x].current_qty - inventory[x].current_qty
                   = SignedPosted(SubSeq(stockDocuments', Len(stockDocuments) + 1,
                                         Len(stockDocuments')), x)]_vars

\* a lock has posted a receipt of 4 of M and an issue of 2 of M2
C29_Witness ==
    /\ ret.op = "lock_stock_taking"
    /\ ret.status = 200
    /\ ret.adjustments_created = 2
    /\ inventory[<<"M", "KHO_NVL">>].total_in = 4
    /\ inventory[<<"M2", "KHO_NVL">>].total_out = 2
    /\ inventory[<<"M2", "KHO_NVL">>].current_qty = -2

\* the adjustment documents of a stock-taking, of one document type
AdjustmentsOf(docs, stocktaking_id, doc_type) ==
    {i \in DOMAIN docs : /\ docs[i].description = <<"stocktaking", stocktaking_id>>
                         /\ docs[i].doc_type = doc_type}

\* C30: the status of a stock-taking only moves from draft to locked.  Once
\* it is locked, update_stock_taking and lock_stock_taking answer with an
\* error and change nothing: the stock-taking and its lines stay as they are
\* and its adjustment documents are posted at most once.
C30_LockedIsTerminal ==
    [][/\ \A t \in DOMAIN stockTakings :
             /\ t \in DOMAIN stockTakings'
             /\ stockTakings[t].status = "locked" => stockTakings'[t] = stockTakings[t]
             /\ stockTakings'[t].status # stockTakings[t].status =>
                   (stockTakings[t].status = "draft" /\ stockTakings'[t].status = "locked")
       /\ (/\ ret'.op \in {"update_stock_taking", "lock_stock_taking"}
           /\ ret'.id \in DOMAIN stockTakings
           /\ stockTakings[ret'.id].status = "locked")
          => /\ ret'.status = 400
             /\ UNCHANGED <<inventory, stockDocuments, stockTakings>>
       /\ \A t \in DOMAIN stockTakings', doc_type \in {"N", "X"} :
             Cardinality(AdjustmentsOf(stockDocuments', t, doc_type)) <= 1]_vars

\* a second lock of a stock-taking whose adjustment was posted is refused
C30_Witness ==
    /\ ret.op = "lock_stock_taking"
    /\ ret.status = 400
    /\ ret.id \in DOMAIN stockTakings
    /\ stockTakings[ret.id].status = "locked"
    /\ AdjustmentsOf(stockDocuments, ret.id, "N") # {}

=============================================================================
